---- MODULE Spec2Model ----
(***************************************************************************)
(* A model of the proof-construction core of the Logic repository:         *)
(* propositional formulas, proofs and the deduction / tautology theorems,  *)
(* and the predicate-logic syntax, deduction, prenex and completeness      *)
(* constructions.  Formulas are tagged tuples whose first element is the   *)
(* root, as in the source's Formula.root; line numbers are 0-based as in   *)
(* the source and stored in 1-based TLA+ sequences.                        *)
(***************************************************************************)
EXTENDS Integers, Sequences, FiniteSets, TLC

VARIABLES
    pc,     \* position of the running call: "start", "build..", "done"
    arg,    \* the arguments of the call (a record named after the parameters)
    ret,    \* the value the call returned (or the exception it raised)
    heap    \* process-wide mutable state: memo tables and name generators

vars == <<pc, arg, ret, heap>>

(***************************************************************************)
(* Bounds of the model.                                                    *)
(***************************************************************************)
MaxDepth == 2       \* nesting depth of the propositional formulas proved
MaxLines == 3       \* number of lines of an input propositional proof

(***************************************************************************)
(* Generic helpers.                                                        *)
(***************************************************************************)
NoValue == "None"

Range(s) == { s[i] : i \in DOMAIN s }

Last(s) == s[Len(s)]

AllButLast(s) == SubSeq(s, 1, Len(s) - 1)

\* the element of a 1-based sequence at the 0-based index the source uses
At(s, i) == s[i + 1]

\* body applied to the value of an expression that is evaluated once, as the
\* right-hand side of an assignment is
Once(value, body(_)) == CHOOSE result \in { body(v) : v \in {value} } : TRUE

(***************************************************************************)
(* propositions/syntax.py                                                  *)
(***************************************************************************)
is_variable(string) ==
    string \in {"p", "q", "r", "z1", "z2", "z3", "z4", "z5", "z6", "z7", "z8", "z9",
                "z10", "z11", "z12", "x1", "x2", "x3", "x4", "x5",
                "y1", "y2", "y3", "y4", "y5"}

is_constant(string) == string = "T" \/ string = "F"

is_unary(string) == string = "~"

is_binary(string) == string = "&" \/ string = "|" \/ string = "->"

\* Formula(root), Formula('~', first), Formula(op, first, second)
PVar(v) == <<v>>

PNot(f) == <<"~", f>>

PBin(op, f, g) == <<op, f, g>>

PImp(f, g) == PBin("->", f, g)

\* the value a Python function without a return statement yields
NoneFormula == <<NoValue>>

root(f) == f[1]

first(f) == f[2]

second(f) == f[3]

RECURSIVE variables(_)
variables(f) ==
    IF is_variable(root(f)) THEN {root(f)}
    ELSE IF is_unary(root(f)) THEN variables(first(f))
    ELSE IF is_binary(root(f)) THEN variables(first(f)) \cup variables(second(f))
    ELSE {}

RECURSIVE operators(_)
operators(f) ==
    IF is_variable(root(f)) THEN {}
    ELSE IF is_unary(root(f)) THEN {root(f)} \cup operators(first(f))
    ELSE IF is_binary(root(f)) THEN
        {root(f)} \cup operators(first(f)) \cup operators(second(f))
    ELSE {root(f)}

\* Formula.substitute_variables: asserts on the keys and falls off the end
\* (the body after the assertion is the placeholder comment "# Task 3.3")
substitute_variables(self, substitution_map) == NoneFormula

(***************************************************************************)
(* propositions/semantics.py                                               *)
(***************************************************************************)
RECURSIVE evaluate(_, _)
evaluate(formula, model) ==
    IF is_constant(root(formula)) THEN root(formula) = "T"
    ELSE IF is_variable(root(formula)) THEN model[root(formula)]
    ELSE IF is_unary(root(formula)) THEN ~ evaluate(first(formula), model)
    ELSE
        LET a == evaluate(first(formula), model)
            b == evaluate(second(formula), model)
        IN  IF root(formula) = "&" THEN a /\ b
            ELSE IF root(formula) = "|" THEN a \/ b
            ELSE IF root(formula) = "->" THEN (~ a) \/ b
            ELSE IF root(formula) = "+" THEN (IF a THEN ~ b ELSE b)
            ELSE IF root(formula) = "<->" THEN (IF a THEN b ELSE ~ b)
            ELSE IF root(formula) = "-&" THEN ~ (a /\ b)
            ELSE ~ (a \/ b)

\* itertools.product({False, True}, repeat=repeat): the tuples in the order
\* they are produced, the last position changing fastest and False (the
\* first element that the set {False, True} yields) coming before True
RECURSIVE product(_)
product(repeat) ==
    IF repeat = 0 THEN << << >> >>
    ELSE Once(product(repeat - 1), LAMBDA result :
             [k \in 1 .. 2 * Len(result) |->
                 Append(result[(k + 1) \div 2], k % 2 = 0)])

\* all_models with True before False at every position
all_models_true_first(variables_) ==
    Once(product(Len(variables_)), LAMBDA iterator :
        [k \in DOMAIN iterator |->
            [v \in Range(variables_) |->
                ~ iterator[k][CHOOSE j \in DOMAIN variables_ :
                                  /\ variables_[j] = v
                                  /\ \A l \in DOMAIN variables_ :
                                         variables_[l] = v => l <= j]]])

\* all_models over a sequence of variables: dict(zip(variables, i)) for each
\* tuple i of the product, a later value replacing an earlier one of the same
\* key; the keys of each dict are in the order of the variables
all_models(variables_) ==
    Once(product(Len(variables_)), LAMBDA iterator :
        [k \in DOMAIN iterator |->
            [v \in Range(variables_) |->
                iterator[k][CHOOSE j \in DOMAIN variables_ :
                                /\ variables_[j] = v
                                /\ \A l \in DOMAIN variables_ :
                                       variables_[l] = v => l <= j]]])

truth_values(formula, models) ==
    [k \in DOMAIN models |-> evaluate(formula, models[k])]

\* functools.reduce without an initial value, for the two lambdas of this
\* file: "and" is lambda x, y: x and y, "or" is lambda x, y: x or y
RECURSIVE reduce(_, _)
reduce(function, sequence) ==
    IF Len(sequence) = 1 THEN sequence[1]
    ELSE Once(reduce(function, AllButLast(sequence)), LAMBDA x :
             IF function = "and" THEN x /\ Last(sequence)
             ELSE x \/ Last(sequence))

\* the order in which the set formula.variables() is iterated
sorted_names(names) == SelectSeq(<<"p", "q", "r">>, LAMBDA v : v \in names)

is_tautology(formula) ==
    reduce("and", truth_values(formula,
                               all_models(sorted_names(variables(formula)))))

\* is_contradiction with the reduction of is_tautology
is_contradiction_and(formula) ==
    ~ reduce("and", truth_values(formula,
                                 all_models(sorted_names(variables(formula)))))

is_contradiction(formula) ==
    ~ reduce("or", truth_values(formula,
                                all_models(sorted_names(variables(formula)))))

\* the loop that returns True at the first true value
is_satisfiable(formula) ==
    LET values == truth_values(formula,
                               all_models(sorted_names(variables(formula))))
        RECURSIVE loop(_)
        loop(k) == IF k > Len(values) THEN FALSE
                   ELSE IF values[k] THEN TRUE
                   ELSE loop(k + 1)
    IN  loop(1)

\* list(model.keys()) of the dicts that all_models builds with
\* dict(zip(variables, i)): each variable once, where it first occurs
RECURSIVE model_keys(_)
model_keys(variables_) ==
    IF variables_ = << >> THEN << >>
    ELSE Once(model_keys(AllButLast(variables_)), LAMBDA before :
             IF Last(variables_) \in Range(before) THEN before
             ELSE Append(before, Last(variables_)))

\* _synthesize_for_model: the dict is given as the list of its keys, vars_m,
\* and its mapping, model; a conjunctive clause
RECURSIVE _synthesize_for_model(_, _)
_synthesize_for_model(vars_m, model) ==
    IF Len(vars_m) = 1
    THEN IF model[vars_m[1]] THEN PVar(vars_m[1]) ELSE PNot(PVar(vars_m[1]))
    ELSE LET half == Len(vars_m) \div 2
             keys1 == SubSeq(vars_m, 1, half)
             keys2 == SubSeq(vars_m, half + 1, Len(vars_m))
         IN  PBin("&",
                  _synthesize_for_model(keys1, [v \in Range(keys1) |-> model[v]]),
                  _synthesize_for_model(keys2, [v \in Range(keys2) |-> model[v]]))

\* the formula f of synthesize after the first k pairs of
\* zip(values, all_models(variables)), started from '(v&~v)'
RECURSIVE synthesize_loop(_, _, _, _)
synthesize_loop(variables_, values, models, k) ==
    IF k = 0
    THEN PBin("&", PVar(variables_[1]), PNot(PVar(variables_[1])))
    ELSE Once(synthesize_loop(variables_, values, models, k - 1), LAMBDA f :
             IF values[k]
             THEN PBin("|", _synthesize_for_model(model_keys(variables_), models[k]), f)
             ELSE f)

\* synthesize_loop started from '(v|~v)'
RECURSIVE synthesize_loop_from_true(_, _, _, _)
synthesize_loop_from_true(variables_, values, models, k) ==
    IF k = 0
    THEN PBin("|", PVar(variables_[1]), PNot(PVar(variables_[1])))
    ELSE Once(synthesize_loop_from_true(variables_, values, models, k - 1),
              LAMBDA f :
             IF values[k]
             THEN PBin("|", _synthesize_for_model(model_keys(variables_), models[k]), f)
             ELSE f)

\* zip stops at the shorter of its two arguments
zip_length(values, models) ==
    IF Len(values) < Len(models) THEN Len(values) ELSE Len(models)

synthesize_from_true(variables_, values) ==
    IF Len(variables_) = 0 THEN NoneFormula
    ELSE Once(all_models(variables_), LAMBDA models :
             synthesize_loop_from_true(variables_, values, models,
                                       zip_length(values, models)))

synthesize(variables_, values) ==
    IF Len(variables_) = 0 THEN NoneFormula
    ELSE Once(all_models(variables_), LAMBDA models :
             synthesize_loop(variables_, values, models,
                             zip_length(values, models)))

\* _synthesize_for_all_except_model: a disjunctive clause
RECURSIVE _synthesize_for_all_except_model(_, _)
_synthesize_for_all_except_model(vars_m, model) ==
    IF Len(vars_m) = 1
    THEN IF model[vars_m[1]] THEN PNot(PVar(vars_m[1])) ELSE PVar(vars_m[1])
    ELSE LET half == Len(vars_m) \div 2
             keys1 == SubSeq(vars_m, 1, half)
             keys2 == SubSeq(vars_m, half + 1, Len(vars_m))
         IN  PBin("|",
                  _synthesize_for_all_except_model(
                      keys1, [v \in Range(keys1) |-> model[v]]),
                  _synthesize_for_all_except_model(
                      keys2, [v \in Range(keys2) |-> model[v]]))

\* the formula f of synthesize_cnf after the first k pairs of
\* zip(values, all_models(variables)), started from '(v|~v)'
RECURSIVE synthesize_cnf_loop(_, _, _, _)
synthesize_cnf_loop(variables_, values, models, k) ==
    IF k = 0
    THEN PBin("|", PVar(variables_[1]), PNot(PVar(variables_[1])))
    ELSE Once(synthesize_cnf_loop(variables_, values, models, k - 1), LAMBDA f :
             IF ~ values[k]
             THEN PBin("&", _synthesize_for_all_except_model(model_keys(variables_),
                                                             models[k]), f)
             ELSE f)

synthesize_cnf(variables_, values) ==
    IF Len(variables_) = 0 THEN NoneFormula
    ELSE Once(all_models(variables_), LAMBDA models :
             synthesize_cnf_loop(variables_, values, models,
                                 zip_length(values, models)))

(***************************************************************************)
(* propositions/proofs.py and propositions/axiomatic_systems.py: inference *)
(* rules, proof lines, specialization and the validity check.              *)
(***************************************************************************)
InferenceRule(assumptions, conclusion) ==
    [assumptions |-> assumptions, conclusion |-> conclusion]

\* Proof.Line(formula) is an assumption line; Proof.Line(formula, rule, assumptions)
\* a line justified by a rule from the cited (0-based) line numbers
Line(formula, rule, assumptions) ==
    [formula |-> formula, rule |-> rule, assumptions |-> assumptions]

AssumptionLine(formula) == Line(formula, NoValue, <<>>)

is_assumption(line) == line.rule = NoValue

Proof(statement, rules, lines) ==
    [raised |-> FALSE, statement |-> statement, rules |-> rules, lines |-> lines]

\* the outcome of a call that ends in a failed assertion: no proof is returned
Raised ==
    [raised |-> TRUE, statement |-> InferenceRule(<<>>, NoneFormula),
     rules |-> {}, lines |-> <<>>]

Pp == PVar("p")

Pq == PVar("q")

AXIOMATIC_SYSTEM == {"MP", "I0", "I1", "D", "I2", "N", "NI", "NN", "R"}

\* the inference rule a rule name stands for
Rule(name) ==
    CASE name = "MP" -> InferenceRule(<<Pp, PImp(Pp, Pq)>>, Pq)
      [] name = "I0" -> InferenceRule(<<>>, PImp(Pp, Pp))
      [] name = "I1" -> InferenceRule(<<>>, PImp(Pq, PImp(Pp, Pq)))
      [] name = "D"  -> InferenceRule(<<>>,
                           PImp(PImp(Pp, PImp(Pq, PVar("r"))),
                                PImp(PImp(Pp, Pq), PImp(Pp, PVar("r")))))
      [] name = "I2" -> InferenceRule(<<>>, PImp(PNot(Pp), PImp(Pp, Pq)))
      [] name = "N"  -> InferenceRule(<<>>,
                           PImp(PImp(PNot(Pq), PNot(Pp)), PImp(Pp, Pq)))
      [] name = "NI" -> InferenceRule(<<>>,
                           PImp(Pp, PImp(PNot(Pq), PNot(PImp(Pp, Pq)))))
      [] name = "NN" -> InferenceRule(<<>>, PImp(Pp, PNot(PNot(Pp))))
      [] name = "R"  -> InferenceRule(<<>>,
                           PImp(PImp(Pq, Pp), PImp(PImp(PNot(Pq), Pp), Pp)))

\* the formula obtained from a rule's formula by one simultaneous substitution
RECURSIVE specialize_formula(_, _)
specialize_formula(f, specialization_map) ==
    IF is_variable(root(f)) THEN
        IF root(f) \in DOMAIN specialization_map
        THEN specialization_map[root(f)] ELSE f
    ELSE IF is_unary(root(f)) THEN
        PNot(specialize_formula(first(f), specialization_map))
    ELSE PBin(root(f), specialize_formula(first(f), specialization_map),
                       specialize_formula(second(f), specialization_map))

specialize(rule, specialization_map) ==
    InferenceRule(
        [i \in DOMAIN rule.assumptions |->
            specialize_formula(rule.assumptions[i], specialization_map)],
        specialize_formula(rule.conclusion, specialization_map))

\* the pairs <<variable, formula>> a match of general against specialization
\* forces; a pair with the key "#" records a mismatch of the two trees
RECURSIVE formula_specialization_map(_, _)
formula_specialization_map(general, specialization) ==
    IF is_variable(root(general)) THEN {<<root(general), specialization>>}
    ELSE IF root(general) # root(specialization) THEN {<<"#", specialization>>}
    ELSE IF is_unary(root(general)) THEN
        formula_specialization_map(first(general), first(specialization))
    ELSE formula_specialization_map(first(general), first(specialization))
         \cup formula_specialization_map(second(general), second(specialization))

is_specialization_of(rule, general) ==
    /\ Len(rule.assumptions) = Len(general.assumptions)
    /\ LET m == formula_specialization_map(general.conclusion, rule.conclusion)
                \cup UNION { formula_specialization_map(general.assumptions[i],
                                                        rule.assumptions[i]) :
                             i \in DOMAIN general.assumptions }
       IN  /\ \A b \in m : b[1] # "#"
           /\ \A b1 \in m : \A b2 \in m : b1[1] = b2[1] => b1[2] = b2[2]

rule_for_line(proof, line_number) ==
    LET line == At(proof.lines, line_number)
    IN  InferenceRule([i \in DOMAIN line.assumptions |->
                          At(proof.lines, line.assumptions[i]).formula],
                      line.formula)

is_line_valid(proof, line_number) ==
    LET line == At(proof.lines, line_number)
    IN  IF is_assumption(line)
        THEN line.formula \in Range(proof.statement.assumptions)
        ELSE /\ line.rule \in proof.rules
             /\ \A i \in DOMAIN line.assumptions :
                    line.assumptions[i] >= 0 /\ line.assumptions[i] < line_number
             /\ is_specialization_of(rule_for_line(proof, line_number),
                                     Rule(line.rule))

is_valid(proof) ==
    /\ ~ proof.raised
    /\ Len(proof.lines) > 0
    /\ Last(proof.lines).formula = proof.statement.conclusion
    /\ \A n \in 0 .. Len(proof.lines) - 1 : is_line_valid(proof, n)

(***************************************************************************)
(* propositions/deduction.py                                               *)
(***************************************************************************)
\* the body of the loop with the two MP lines of an MP step citing their
\* lines in the other order
remove_assumption_step_swapped(proof, st, i) ==
    LET line == At(proof.lines, i)
        phi == Last(proof.statement.assumptions)
        new_assumptions == AllButLast(proof.statement.assumptions)
        zi == line.formula
        phi_imp_zi == PImp(phi, zi)
    IN  IF zi = phi THEN
            [new_lines |-> Append(st.new_lines, Line(PImp(phi, phi), "I0", <<>>)),
             lines_bias |-> st.lines_bias,
             lines_map |-> Append(st.lines_map, i + st.lines_bias)]
        ELSE IF line.rule = "MP" THEN
            LET j == At(st.lines_map, line.assumptions[1])
                k == At(st.lines_map, line.assumptions[2])
                zj == At(st.new_lines, j).formula
                zk == At(st.new_lines, k).formula
                p_imp_j__imp__p_imp_i == PImp(zj, phi_imp_zi)
            IN  [new_lines |-> st.new_lines \o
                    << Line(PImp(zk, p_imp_j__imp__p_imp_i), "D", <<>>),
                       Line(p_imp_j__imp__p_imp_i, "MP", <<i + st.lines_bias, k>>),
                       Line(phi_imp_zi, "MP", <<i + st.lines_bias + 1, j>>) >>,
                 lines_bias |-> st.lines_bias + 2,
                 lines_map |-> Append(st.lines_map, i + st.lines_bias + 2)]
        ELSE IF zi \in Range(new_assumptions) \/ line.rule \in proof.rules THEN
            [new_lines |-> st.new_lines \o
                    << line,
                       Line(PImp(zi, phi_imp_zi), "I1", <<>>),
                       Line(phi_imp_zi, "MP",
                            <<i + st.lines_bias, i + st.lines_bias + 1>>) >>,
             lines_bias |-> st.lines_bias + 2,
             lines_map |-> Append(st.lines_map, i + st.lines_bias + 2)]
        ELSE
            [new_lines |-> st.new_lines,
             lines_bias |-> st.lines_bias,
             lines_map |-> Append(st.lines_map, i + st.lines_bias)]

\* the body of the loop over proof.lines, for input line i
remove_assumption_step(proof, st, i) ==
    LET line == At(proof.lines, i)
        phi == Last(proof.statement.assumptions)
        new_assumptions == AllButLast(proof.statement.assumptions)
        zi == line.formula
        phi_imp_zi == PImp(phi, zi)
    IN  IF zi = phi THEN
            [new_lines |-> Append(st.new_lines, Line(PImp(phi, phi), "I0", <<>>)),
             lines_bias |-> st.lines_bias,
             lines_map |-> Append(st.lines_map, i + st.lines_bias)]
        ELSE IF line.rule = "MP" THEN
            LET j == At(st.lines_map, line.assumptions[1])
                k == At(st.lines_map, line.assumptions[2])
                zj == At(st.new_lines, j).formula
                zk == At(st.new_lines, k).formula
                p_imp_j__imp__p_imp_i == PImp(zj, phi_imp_zi)
            IN  [new_lines |-> st.new_lines \o
                    << Line(PImp(zk, p_imp_j__imp__p_imp_i), "D", <<>>),
                       Line(p_imp_j__imp__p_imp_i, "MP", <<k, i + st.lines_bias>>),
                       Line(phi_imp_zi, "MP", <<j, i + st.lines_bias + 1>>) >>,
                 lines_bias |-> st.lines_bias + 2,
                 lines_map |-> Append(st.lines_map, i + st.lines_bias + 2)]
        ELSE IF zi \in Range(new_assumptions) \/ line.rule \in proof.rules THEN
            [new_lines |-> st.new_lines \o
                    << line,
                       Line(PImp(zi, phi_imp_zi), "I1", <<>>),
                       Line(phi_imp_zi, "MP",
                            <<i + st.lines_bias, i + st.lines_bias + 1>>) >>,
             lines_bias |-> st.lines_bias + 2,
             lines_map |-> Append(st.lines_map, i + st.lines_bias + 2)]
        ELSE
            [new_lines |-> st.new_lines,
             lines_bias |-> st.lines_bias,
             lines_map |-> Append(st.lines_map, i + st.lines_bias)]

\* the loop state after the body has run, in order, for input lines
\* lo .. hi-1 from loop state st
RECURSIVE remove_assumption_loop(_, _, _, _)
remove_assumption_loop(proof, st, lo, hi) ==
    IF hi <= lo THEN st
    ELSE IF hi = lo + 1 THEN remove_assumption_step(proof, st, lo)
    ELSE LET mid == (lo + hi) \div 2
             s == remove_assumption_loop(proof, st, lo, mid)
         IN  \* lines_map has one entry per processed line
             IF Len(s.lines_map) = mid
             THEN remove_assumption_loop(proof, s, mid, hi) ELSE s

\* remove_assumption that returns the new lines with the rules of the given
\* proof only
remove_assumption_same_rules(proof) ==
    Proof(InferenceRule(AllButLast(proof.statement.assumptions),
                        PImp(Last(proof.statement.assumptions),
                             proof.statement.conclusion)),
          proof.rules,
          remove_assumption_loop(
                proof, [new_lines |-> <<>>, lines_bias |-> 0, lines_map |-> <<>>],
                0, Len(proof.lines)).new_lines)

remove_assumption(proof) ==
    IF ~ ( /\ is_valid(proof)
           /\ Len(proof.statement.assumptions) > 0
           /\ \A rule \in proof.rules :
                  rule = "MP" \/ Len(Rule(rule).assumptions) = 0 )
    THEN Raised
    ELSE
        LET phi == Last(proof.statement.assumptions)
            new_assumptions == AllButLast(proof.statement.assumptions)
            st == remove_assumption_loop(
                proof, [new_lines |-> <<>>, lines_bias |-> 0, lines_map |-> <<>>],
                0, Len(proof.lines))
        IN  Proof(InferenceRule(new_assumptions,
                                PImp(phi, proof.statement.conclusion)),
                  proof.rules \cup {"MP", "I0", "I1", "D"},
                  st.new_lines)

prove_corollary(antecedent_proof, consequent, conditional) ==
    LET phi_imp_psi == PImp(antecedent_proof.statement.conclusion, consequent)
        n == Len(antecedent_proof.lines)
    IN  IF ~ ( /\ is_valid(antecedent_proof)
               /\ is_specialization_of(InferenceRule(<<>>, phi_imp_psi),
                                        Rule(conditional)) )
        THEN Raised
        \* antecedent_proof.statement.assumptions[0] of an empty tuple
        ELSE IF Len(antecedent_proof.statement.assumptions) = 0 THEN Raised
        ELSE Proof(InferenceRule(<<At(antecedent_proof.statement.assumptions, 0)>>,
                                 consequent),
                   antecedent_proof.rules \cup {"MP", conditional},
                   antecedent_proof.lines
                       \o << Line(phi_imp_psi, conditional, <<>>),
                             Line(consequent, "MP", <<n - 1, n>>) >>)

\* variant whose last line cites its two lines in the other order
prove_by_way_of_contradiction_swapped(proof) ==
    Once(remove_assumption(proof), LAMBDA nasm_proof :
        LET conclusion == first(Last(proof.statement.assumptions))
            n == Len(nasm_proof.lines)
        IN  Proof(InferenceRule(nasm_proof.statement.assumptions, conclusion),
                  nasm_proof.rules \cup {"MP", "I0", "I1", "D", "N"},
                  nasm_proof.lines
                      \o << Line(PImp(PImp(PNot(conclusion), PNot(PImp(Pp, Pp))),
                                      PImp(PImp(Pp, Pp), conclusion)), "N", <<>>),
                            Line(PImp(PImp(Pp, Pp), conclusion), "MP", <<n - 1, n>>),
                            Line(PImp(Pp, Pp), "I0", <<>>),
                            Line(conclusion, "MP", <<n + 1, n + 2>>) >>))

prove_by_way_of_contradiction(proof) ==
    IF ~ ( /\ is_valid(proof)
           /\ proof.statement.conclusion = PNot(PImp(Pp, Pp))
           /\ Len(proof.statement.assumptions) > 0
           /\ root(Last(proof.statement.assumptions)) = "~"
           /\ \A rule \in proof.rules :
                  rule = "MP" \/ Len(Rule(rule).assumptions) = 0 )
    THEN Raised
    ELSE Once(remove_assumption(proof), LAMBDA nasm_proof :
        LET conclusion == first(Last(proof.statement.assumptions))
            spec_map == [v \in {"p", "q"} |->
                            IF v = "p" THEN Rule("I0").conclusion ELSE conclusion]
            \* len(new_lines) before each of the four lines is appended
            n == Len(nasm_proof.lines)
        IN  Proof(InferenceRule(nasm_proof.statement.assumptions, conclusion),
                  nasm_proof.rules \cup {"MP", "I0", "I1", "D", "N"},
                  nasm_proof.lines
                      \o << Line(specialize(Rule("N"), spec_map).conclusion,
                                 "N", <<>>),
                            Line(PImp(spec_map["p"], spec_map["q"]), "MP",
                                 <<(n + 1) - 2, (n + 1) - 1>>),
                            Line(Rule("I0").conclusion, "I0", <<>>),
                            Line(spec_map["q"], "MP",
                                 <<(n + 3) - 1, (n + 3) - 2>>) >>))

(***************************************************************************)
(* propositions/tautology.py                                               *)
(***************************************************************************)
\* sorted(names) for a set of variable names
formulas_capturing_model(model) ==
    LET keys == sorted_names(DOMAIN model)
    IN  [i \in DOMAIN keys |->
            IF model[keys[i]] THEN PVar(keys[i]) ELSE PNot(PVar(keys[i]))]

\* _concat_proofs that leaves the cited line numbers of p2 as they are
_concat_proofs_unshifted(p1, p2) == p1.lines \o p2.lines

_concat_proofs(p1, p2) ==
    LET n1 == Len(p1.lines)
    IN  p1.lines \o
        [x \in DOMAIN p2.lines |->
            LET l == p2.lines[x]
            IN  IF is_assumption(l) THEN l
                ELSE Line(l.formula, l.rule,
                          [y \in DOMAIN l.assumptions |-> l.assumptions[y] + n1])]

RECURSIVE prove_in_model(_, _)
prove_in_model(formula, model) ==
    LET value == evaluate(formula, model)
    IN  IF is_variable(root(formula)) THEN
            LET conclusion == IF value THEN formula ELSE PNot(formula)
            IN  Proof(InferenceRule(formulas_capturing_model(model), conclusion),
                      AXIOMATIC_SYSTEM, <<AssumptionLine(conclusion)>>)
        ELSE IF is_unary(root(formula)) THEN
            LET phi == first(formula)
                phi_proof == prove_in_model(phi, model)
                nnphi == PNot(formula)
                n == Len(phi_proof.lines)
            IN  IF value THEN phi_proof
                ELSE Proof(InferenceRule(phi_proof.statement.assumptions, nnphi),
                           AXIOMATIC_SYSTEM,
                           phi_proof.lines \o
                           << Line(PImp(phi, nnphi), "NN", <<>>),
                              Line(nnphi, "MP", <<n - 1, n>>) >>)
        ELSE
            LET phi1 == first(formula)
                phi2 == second(formula)
                p1p2 == PImp(phi1, phi2)
            IN  IF value THEN
                    IF ~ evaluate(phi1, model) THEN
                        LET nphi1_proof == prove_in_model(phi1, model)
                            n == Len(nphi1_proof.lines)
                        IN  Proof(InferenceRule(nphi1_proof.statement.assumptions,
                                                formula),
                                  AXIOMATIC_SYSTEM,
                                  nphi1_proof.lines \o
                                  << Line(PImp(PNot(phi1), p1p2), "I2", <<>>),
                                     Line(formula, "MP", <<n - 1, n>>) >>)
                    ELSE
                        LET phi2_proof == prove_in_model(phi2, model)
                            n == Len(phi2_proof.lines)
                        IN  Proof(InferenceRule(phi2_proof.statement.assumptions,
                                                formula),
                                  AXIOMATIC_SYSTEM,
                                  phi2_proof.lines \o
                                  << Line(PImp(phi2, p1p2), "I1", <<>>),
                                     Line(formula, "MP", <<n - 1, n>>) >>)
                ELSE
                    LET phi1_proof == prove_in_model(phi1, model)
                        nphi2_proof == prove_in_model(phi2, model)
                        statement == InferenceRule(phi1_proof.statement.assumptions,
                                                   PNot(p1p2))
                        n1 == Len(phi1_proof.lines)
                        n2 == Len(nphi2_proof.lines)
                        spec_map == [v \in {"p", "q"} |->
                                        IF v = "p" THEN phi1 ELSE phi2]
                    IN  Proof(statement, AXIOMATIC_SYSTEM,
                              _concat_proofs(phi1_proof, nphi2_proof) \o
                              << Line(specialize(Rule("NI"), spec_map).conclusion,
                                      "NI", <<>>),
                                 Line(substitute_variables(
                                          PImp(PNot(Pq), PNot(PImp(Pp, Pq))),
                                          spec_map),
                                      "MP", <<n1 - 1, n1 + n2>>),
                                 Line(PNot(p1p2), "MP",
                                      <<n1 + n2 - 1, n1 + n2 + 1>>) >>)

reduce_assumption(proof_from_affirmation, proof_from_negation) ==
    IF proof_from_affirmation.raised \/ proof_from_negation.raised THEN Raised
    ELSE IF ~ ( /\ is_valid(proof_from_affirmation)
                /\ is_valid(proof_from_negation)
                /\ proof_from_affirmation.statement.conclusion =
                       proof_from_negation.statement.conclusion
                /\ Len(proof_from_affirmation.statement.assumptions) > 0
                /\ Len(proof_from_negation.statement.assumptions) > 0
                /\ AllButLast(proof_from_affirmation.statement.assumptions) =
                       AllButLast(proof_from_negation.statement.assumptions)
                /\ PNot(Last(proof_from_affirmation.statement.assumptions)) =
                       Last(proof_from_negation.statement.assumptions)
                /\ proof_from_affirmation.rules = proof_from_negation.rules )
    THEN Raised
    ELSE
        LET new_statement ==
                InferenceRule(AllButLast(proof_from_affirmation.statement.assumptions),
                              proof_from_affirmation.statement.conclusion)
            new_rules == proof_from_affirmation.rules \cup {"MP", "I0", "I1", "D", "R"}
            p1 == remove_assumption(proof_from_affirmation)
            p2 == remove_assumption(proof_from_negation)
            n1 == Len(p1.lines)
            n2 == Len(p2.lines)
            phi == Last(proof_from_affirmation.statement.assumptions)
            psi == proof_from_affirmation.statement.conclusion
            nphi_psi == p2.statement.conclusion
            spec_map == [v \in {"p", "q"} |-> IF v = "p" THEN psi ELSE phi]
        IN  IF p1.raised \/ p2.raised THEN Raised
            ELSE Proof(new_statement, new_rules,
                       _concat_proofs(p1, p2) \o
                       << Line(specialize(Rule("R"), spec_map).conclusion, "R", <<>>),
                          Line(PImp(nphi_psi, psi), "MP", <<n1 - 1, n1 + n2>>),
                          Line(psi, "MP", <<n1 + n2 - 1, n1 + n2 + 1>>) >>)

\* the model {**model, variable: value}
extend_model(model, variable, value) ==
    [v \in DOMAIN model \cup {variable} |->
        IF v = variable THEN value ELSE model[v]]

RECURSIVE prove_tautology(_, _)
prove_tautology(tautology, model) ==
    LET _vars == sorted_names(variables(tautology))
        keys == sorted_names(DOMAIN model)
        n == Len(keys)
    IN  IF ~ ( /\ is_tautology(tautology)
               /\ operators(tautology) \subseteq {"->", "~"}
               /\ Len(_vars) >= n
               /\ SubSeq(_vars, 1, n) = keys )
        THEN Raised
        ELSE IF keys = _vars THEN prove_in_model(tautology, model)
        ELSE reduce_assumption(
                 prove_tautology(tautology, extend_model(model, _vars[n + 1], TRUE)),
                 prove_tautology(tautology, extend_model(model, _vars[n + 1], FALSE)))

(***************************************************************************)
(* Calls of prove_in_model and prove_tautology on bounded inputs.          *)
(***************************************************************************)
\* the variables the proved formulas are built from
\* formulas over p and q with operators '~' and '->' of depth at most d
RECURSIVE FormulasUpTo(_)
FormulasUpTo(d) ==
    IF d = 0 THEN { PVar(v) : v \in {"p", "q"} }
    ELSE LET sub == FormulasUpTo(d - 1)
         IN  sub \cup { PNot(f) : f \in sub }
                 \cup { PImp(f, g) : f \in sub, g \in sub }

InitTautology ==
    /\ pc = "start"
    /\ arg \in [formula : FormulasUpTo(MaxDepth),
               model : UNION { [vs -> BOOLEAN] : vs \in SUBSET {"p", "q"} }]
    /\ ret = NoValue
    /\ heap = NoValue

\* prove_in_model(formula, model), for a model over (at least) the variables
\* of the formula
CallProveInModel ==
    /\ pc = "start"
    /\ variables(arg.formula) \subseteq DOMAIN arg.model
    /\ ret' = prove_in_model(arg.formula, arg.model)
    /\ pc' = "prove_in_model"
    /\ UNCHANGED <<arg, heap>>

\* prove_tautology(tautology, model), for a tautology and a model over a
\* prefix of its sorted variables
CallProveTautology ==
    /\ pc = "start"
    /\ is_tautology(arg.formula)
    /\ LET _vars == sorted_names(variables(arg.formula))
           keys == sorted_names(DOMAIN arg.model)
       IN  Len(keys) <= Len(_vars) /\ SubSeq(_vars, 1, Len(keys)) = keys
    /\ ret' = prove_tautology(arg.formula, arg.model)
    /\ pc' = "prove_tautology"
    /\ UNCHANGED <<arg, heap>>

NextTautology == CallProveInModel \/ CallProveTautology

SpecTautology == InitTautology /\ [][NextTautology]_vars

\* C1: prove_in_model returns a valid proof of formula if it evaluates to True
\* in the model and of '~formula' otherwise, from formulas_capturing_model(model)
C1_ProveInModelValid ==
    pc = "prove_in_model" =>
        /\ is_valid(ret)
        /\ ret.statement.conclusion =
               (IF evaluate(arg.formula, arg.model)
                THEN arg.formula ELSE PNot(arg.formula))
        /\ ret.statement.assumptions = formulas_capturing_model(arg.model)

\* C2: prove_tautology returns a valid proof of the tautology from
\* formulas_capturing_model(model); with the empty model it has no assumptions
C2_ProveTautologyValid ==
    pc = "prove_tautology" =>
        /\ is_valid(ret)
        /\ ret.statement.conclusion = arg.formula
        /\ ret.statement.assumptions = formulas_capturing_model(arg.model)

(***************************************************************************)
(* Calls of remove_assumption and reduce_assumption.  The input proofs are *)
(* valid proofs grown line by line (an assumption, an instance of an       *)
(* assumptionless rule, or an MP step), or the proofs prove_in_model       *)
(* returns for two models that differ in their last variable.              *)
(***************************************************************************)
InitDeduction ==
    /\ pc = "build"
    /\ \/ \E assumptions \in { <<Pp>>, <<Pq, Pp>>, <<Pp, PImp(Pp, Pq)>>, <<Pp, Pp>> },
             rules \in { {"MP", "I1"}, {"MP", "I0", "I2"}, {"I1", "NN"} } :
              arg = [proof |-> Proof(InferenceRule(assumptions, NoneFormula),
                                     rules, <<>>),
                     negation |-> Proof(
                         InferenceRule(Append(AllButLast(assumptions),
                                              PNot(Last(assumptions))),
                                       NoneFormula),
                         rules, <<>>)]
       \/ \E f \in FormulasUpTo(MaxDepth), m \in [{"p", "q"} -> BOOLEAN] :
              /\ m[Last(sorted_names(DOMAIN m))]
              /\ is_valid(prove_in_model(f, m))
              /\ arg = [proof |-> prove_in_model(f, m),
                        negation |-> prove_in_model(
                            f, extend_model(m, Last(sorted_names(DOMAIN m)), FALSE))]
    /\ ret = NoValue
    /\ heap = NoValue

\* the proof that is being grown
Growing == IF pc = "build" THEN arg.proof ELSE arg.negation

Grow(line) ==
    /\ pc \in {"build", "build2"}
    /\ Len(arg.proof.lines) + Len(arg.negation.lines) < MaxLines
    /\ LET \* the proof with one more line, whose formula becomes the conclusion
           WithLine(proof) ==
               Proof(InferenceRule(proof.statement.assumptions, line.formula),
                     proof.rules, Append(proof.lines, line))
       IN  arg' = IF pc = "build"
                  THEN [arg EXCEPT !.proof = WithLine(arg.proof)]
                  ELSE [arg EXCEPT !.negation = WithLine(arg.negation)]
    /\ UNCHANGED <<pc, ret, heap>>

AddAssumptionLine ==
    \E a \in Range(Growing.statement.assumptions) : Grow(AssumptionLine(a))

AddRuleLine ==
    \E rule \in Growing.rules \ {"MP"} :
        \E m \in [variables(Rule(rule).conclusion) -> { Pp, Pq }] :
            Grow(Line(specialize(Rule(rule), m).conclusion, rule, <<>>))

AddMPLine ==
    /\ "MP" \in Growing.rules
    /\ \E j \in 0 .. Len(Growing.lines) - 1, k \in 0 .. Len(Growing.lines) - 1 :
          LET zj == At(Growing.lines, j).formula
              zk == At(Growing.lines, k).formula
          IN  /\ root(zk) = "->"
              /\ first(zk) = zj
              /\ Grow(Line(second(zk), "MP", <<j, k>>))

\* the first proof is complete: go on to grow the proof from the negation
StartNegation ==
    /\ pc = "build"
    /\ is_valid(arg.proof)
    /\ pc' = "build2"
    /\ UNCHANGED <<arg, ret, heap>>

CallRemoveAssumption ==
    /\ pc = "build"
    /\ is_valid(arg.proof)
    /\ ret' = remove_assumption(arg.proof)
    /\ pc' = "remove_assumption"
    /\ UNCHANGED <<arg, heap>>

CallReduceAssumption ==
    /\ pc = "build2"
    /\ is_valid(arg.proof)
    /\ is_valid(arg.negation)
    /\ arg.proof.statement.conclusion = arg.negation.statement.conclusion
    /\ ret' = reduce_assumption(arg.proof, arg.negation)
    /\ pc' = "reduce_assumption"
    /\ UNCHANGED <<arg, heap>>

NextDeduction ==
    \/ AddAssumptionLine
    \/ AddRuleLine
    \/ AddMPLine
    \/ StartNegation
    \/ CallRemoveAssumption
    \/ CallReduceAssumption

SpecDeduction == InitDeduction /\ [][NextDeduction]_vars

\* C3: remove_assumption turns a valid proof of c whose last assumption is a
\* into a valid proof of '(a->c)' from the other assumptions, in the same
\* order, via the rules of the proof plus MP, I0, I1 and D
C3_RemoveAssumption ==
    pc = "remove_assumption" =>
        /\ is_valid(ret)
        /\ ret.statement.conclusion =
               PImp(Last(arg.proof.statement.assumptions),
                    arg.proof.statement.conclusion)
        /\ ret.statement.assumptions = AllButLast(arg.proof.statement.assumptions)
        /\ ret.rules = arg.proof.rules \cup {"MP", "I0", "I1", "D"}

\* the proof of q from {p, (p->q)} has become a proof of '((p->q)->q)' from {p}
C3_Witness ==
    /\ pc = "remove_assumption"
    /\ arg.proof.statement = InferenceRule(<<Pp, PImp(Pp, Pq)>>, Pq)
    /\ \E n \in DOMAIN arg.proof.lines : arg.proof.lines[n].rule = "MP"
    /\ ret.statement = InferenceRule(<<Pp>>, PImp(PImp(Pp, Pq), Pq))
    /\ is_valid(ret)

InitCorollary ==
    /\ pc = "build"
    /\ \E assumptions \in { <<>>, <<Pp>>, <<Pq, Pp>>,
                            <<PNot(PImp(Pp, Pp))>>,
                            <<PNot(PImp(Pp, Pp)), PNot(Pq)>>,
                            <<PImp(PNot(Pq), PNot(PImp(Pp, Pp))), PNot(Pq)>>,
                            <<Pq, PImp(Pq, PNot(PImp(Pp, Pp))), PNot(Pp)>> },
          rules \in { {"MP"}, {"MP", "I0"}, {"I1", "NN"} } :
           arg = [proof |-> Proof(InferenceRule(assumptions, NoneFormula),
                                  rules, <<>>),
                  negation |-> Proof(InferenceRule(<<>>, NoneFormula), rules, <<>>)]
    /\ ret = NoValue
    /\ heap = NoValue

CallProveCorollary ==
    /\ pc = "build"
    /\ is_valid(arg.proof)
    /\ \E conditional \in {"I0", "I1", "NN"} :
       \E consequent \in { arg.proof.statement.conclusion,
                           PNot(PNot(arg.proof.statement.conclusion)),
                           PImp(Pq, arg.proof.statement.conclusion) } :
           /\ is_specialization_of(
                  InferenceRule(<<>>, PImp(arg.proof.statement.conclusion,
                                           consequent)),
                  Rule(conditional))
           /\ ret' = prove_corollary(arg.proof, consequent, conditional)
           /\ arg' = [proof |-> arg.proof, negation |-> arg.negation,
                      consequent |-> consequent, conditional |-> conditional]
    /\ pc' = "prove_corollary"
    /\ UNCHANGED heap

CallProveByWayOfContradiction ==
    /\ pc = "build"
    /\ is_valid(arg.proof)
    /\ arg.proof.statement.conclusion = PNot(PImp(Pp, Pp))
    /\ Len(arg.proof.statement.assumptions) > 0
    /\ root(Last(arg.proof.statement.assumptions)) = "~"
    /\ ret' = prove_by_way_of_contradiction(arg.proof)
    /\ pc' = "prove_by_way_of_contradiction"
    /\ UNCHANGED <<arg, heap>>

NextCorollary ==
    \/ AddAssumptionLine
    \/ AddRuleLine
    \/ AddMPLine
    \/ CallProveCorollary
    \/ CallProveByWayOfContradiction

SpecCorollary == InitCorollary /\ [][NextCorollary]_vars

\* C11: prove_by_way_of_contradiction turns a valid proof of '~(p->p)' whose
\* last assumption is '~f' into a valid proof of f from the other assumptions
\* via the rules of the proof plus MP, I0, I1, D and N; after the lines of
\* remove_assumption come the N instance '((~f->~(p->p))->((p->p)->f))', an MP
\* line '((p->p)->f)' from the last line of remove_assumption and the N
\* instance, the I0 line '(p->p)', and an MP line f from the I0 line and the
\* first MP line
C11_ProveByWayOfContradiction ==
    pc = "prove_by_way_of_contradiction" =>
        LET f == first(Last(arg.proof.statement.assumptions))
            n == Len(remove_assumption(arg.proof).lines)
            pp == PImp(Pp, Pp)
        IN  /\ is_valid(ret)
            /\ ret.statement =
                   InferenceRule(AllButLast(arg.proof.statement.assumptions), f)
            /\ ret.rules = arg.proof.rules \cup {"MP", "I0", "I1", "D", "N"}
            /\ SubSeq(ret.lines, 1, n) = remove_assumption(arg.proof).lines
            /\ SubSeq(ret.lines, n + 1, Len(ret.lines)) =
                   << Line(PImp(PImp(PNot(f), PNot(pp)), PImp(pp, f)), "N", <<>>),
                      Line(PImp(pp, f), "MP", <<n - 1, n>>),
                      Line(pp, "I0", <<>>),
                      Line(f, "MP", <<n + 2, n + 1>>) >>

\* the proof of '~(p->p)' from {(~q->~(p->p)), ~q} by MP has become a proof of
\* q from {(~q->~(p->p))}
C11_Witness ==
    /\ pc = "prove_by_way_of_contradiction"
    /\ arg.proof.statement.assumptions =
           <<PImp(PNot(Pq), PNot(PImp(Pp, Pp))), PNot(Pq)>>
    /\ \E n \in DOMAIN arg.proof.lines : arg.proof.lines[n].rule = "MP"
    /\ ret.statement = InferenceRule(<<PImp(PNot(Pq), PNot(PImp(Pp, Pp)))>>, Pq)
    /\ is_valid(ret)

\* C13: prove_corollary returns a valid proof of the consequent from all the
\* assumptions of the given proof, in the same order, via its rules plus MP
\* and the conditional
C13_ProveCorollary ==
    pc = "prove_corollary" =>
        /\ is_valid(ret)
        /\ ret.statement = InferenceRule(arg.proof.statement.assumptions,
                                         arg.consequent)
        /\ ret.rules = arg.proof.rules \cup {"MP", arg.conditional}

(***************************************************************************)
(* predicates/syntax.py                                                    *)
(***************************************************************************)
predicates_is_constant(string) ==
    string \in {"a", "c", "d", "1", "_", "e1", "e2", "e3", "e4", "e5", "e6",
                "e7"}

predicates_is_variable(string) ==
    string \in {"w", "x", "y", "z", "zz", "z1", "z2", "z3", "z4", "z5", "z6",
                "z7", "z8"}

is_function(string) == string \in {"f", "g", "h", "plus"}

is_equality(string) == string = "="

is_relation(string) == string \in {"R", "Q", "P", "F", "G", "H"}

predicates_is_unary(string) == string = "~"

predicates_is_binary(string) == string \in {"&", "|", "->"}

is_quantifier(string) == string \in {"A", "E"}

\* Term(root) and Term(root, arguments)
Term(root_, arguments) == [root |-> root_, arguments |-> arguments]

Atom(root_) == Term(root_, <<>>)

\* Formula(root, arguments) of an equality or a relation invocation
Relation(root_, arguments) == [root |-> root_, arguments |-> arguments]

Equality(t1, t2) == Relation("=", <<t1, t2>>)

\* Formula('~', first)
Unary(first_) == [root |-> "~", first |-> first_]

\* Formula(root, first, second)
Binary(root_, first_, second_) ==
    [root |-> root_, first |-> first_, second |-> second_]

\* Formula(root, variable, predicate)
Quantified(root_, variable, predicate) ==
    [root |-> root_, variable |-> variable, predicate |-> predicate]

\* the exception, carrying one of the given variable names (the forbidden
\* variables are visited in the iteration order of a set)
ForbiddenVariableError(variable_names) ==
    [raised |-> "ForbiddenVariableError", variable_name |-> variable_names]

is_raised(result) == "raised" \in DOMAIN result

\* the first exception raised while the elements of results were computed in
\* order
first_raised(results) ==
    results[CHOOSE i \in DOMAIN results :
                /\ is_raised(results[i])
                /\ \A j \in 1 .. i - 1 : ~ is_raised(results[j])]

RECURSIVE Term_variables(_)
Term_variables(self) ==
    IF is_function(self.root)
    THEN UNION { Term_variables(self.arguments[i]) : i \in DOMAIN self.arguments }
    ELSE IF predicates_is_variable(self.root) THEN {self.root}
    ELSE {}

RECURSIVE Term__substitute_helper(_, _, _)
Term__substitute_helper(self, substitution_map, forbids) ==
    IF predicates_is_constant(self.root) \/ predicates_is_variable(self.root) THEN
        IF self.root \notin DOMAIN substitution_map \/ self.root \in forbids
        THEN self
        ELSE LET temp == substitution_map[self.root]
             IN  IF forbids \cap Term_variables(temp) # {}
                 THEN ForbiddenVariableError(forbids \cap Term_variables(temp))
                 ELSE temp
    ELSE
        LET arguments == [i \in DOMAIN self.arguments |->
                Term__substitute_helper(self.arguments[i], substitution_map, forbids)]
        IN  IF \E i \in DOMAIN arguments : is_raised(arguments[i])
            THEN first_raised(arguments)
            ELSE Term(self.root, arguments)

Term_substitute(self, substitution_map, forbidden_variables) ==
    Term__substitute_helper(self, substitution_map, forbidden_variables)

RECURSIVE Formula_substitute(_, _, _)
Formula_substitute(self, substitution_map, forbidden_variables) ==
    IF is_equality(self.root) \/ is_relation(self.root) THEN
        LET new_arguments == [i \in DOMAIN self.arguments |->
                Term_substitute(self.arguments[i], substitution_map,
                                forbidden_variables)]
        IN  IF \E i \in DOMAIN new_arguments : is_raised(new_arguments[i])
            THEN first_raised(new_arguments)
            ELSE Relation(self.root, new_arguments)
    ELSE IF predicates_is_unary(self.root) THEN
        Once(Formula_substitute(self.first, substitution_map, forbidden_variables),
             LAMBDA first_ : IF is_raised(first_) THEN first_ ELSE Unary(first_))
    ELSE IF predicates_is_binary(self.root) THEN
        Once(Formula_substitute(self.first, substitution_map, forbidden_variables),
             LAMBDA first_ :
        Once(Formula_substitute(self.second, substitution_map, forbidden_variables),
             LAMBDA second_ :
            IF is_raised(first_) THEN first_
            ELSE IF is_raised(second_) THEN second_
            ELSE Binary(self.root, first_, second_)))
    ELSE
        Once(Formula_substitute(self.predicate, substitution_map,
                                forbidden_variables \cup {self.variable}),
             LAMBDA predicate : IF is_raised(predicate) THEN predicate
                                ELSE Quantified(self.root, self.variable, predicate))

(***************************************************************************)
(* What the documentation of Term.substitute and Formula.substitute        *)
(* promises: the result of the substitution and the cases that raise.      *)
(***************************************************************************)
\* the term with every occurrence of a key of the map that is not a variable
\* in bound replaced by its image, all at once
RECURSIVE substituted_term(_, _, _)
substituted_term(term, substitution_map, bound) ==
    IF is_function(term.root)
    THEN Term(term.root, [i \in DOMAIN term.arguments |->
             substituted_term(term.arguments[i], substitution_map, bound)])
    ELSE IF term.root \in DOMAIN substitution_map /\ term.root \notin bound
    THEN substitution_map[term.root]
    ELSE term

\* the formula with every constant and every free variable occurrence that is
\* a key of the map replaced by its image
RECURSIVE substituted_formula(_, _, _)
substituted_formula(formula, substitution_map, bound) ==
    IF is_equality(formula.root) \/ is_relation(formula.root) THEN
        Relation(formula.root, [i \in DOMAIN formula.arguments |->
            substituted_term(formula.arguments[i], substitution_map, bound)])
    ELSE IF predicates_is_unary(formula.root) THEN
        Unary(substituted_formula(formula.first, substitution_map, bound))
    ELSE IF predicates_is_binary(formula.root) THEN
        Binary(formula.root,
               substituted_formula(formula.first, substitution_map, bound),
               substituted_formula(formula.second, substitution_map, bound))
    ELSE Quantified(formula.root, formula.variable,
             substituted_formula(formula.predicate, substitution_map,
                                 bound \cup {formula.variable}))

\* the variables, forbidden or bound at the place of the occurrence, of the
\* images of the keys that have a free occurrence in the term
RECURSIVE offending_in_term(_, _, _, _)
offending_in_term(term, substitution_map, forbidden_variables, bound) ==
    IF is_function(term.root)
    THEN UNION { offending_in_term(term.arguments[i], substitution_map,
                                   forbidden_variables, bound) :
                 i \in DOMAIN term.arguments }
    ELSE IF term.root \in DOMAIN substitution_map /\ term.root \notin bound
    THEN Term_variables(substitution_map[term.root])
             \cap (forbidden_variables \cup bound)
    ELSE {}

RECURSIVE offending_variables(_, _, _, _)
offending_variables(formula, substitution_map, forbidden_variables, bound) ==
    IF is_equality(formula.root) \/ is_relation(formula.root) THEN
        UNION { offending_in_term(formula.arguments[i], substitution_map,
                                  forbidden_variables, bound) :
                i \in DOMAIN formula.arguments }
    ELSE IF predicates_is_unary(formula.root) THEN
        offending_variables(formula.first, substitution_map,
                            forbidden_variables, bound)
    ELSE IF predicates_is_binary(formula.root) THEN
        offending_variables(formula.first, substitution_map,
                            forbidden_variables, bound)
        \cup offending_variables(formula.second, substitution_map,
                                 forbidden_variables, bound)
    ELSE offending_variables(formula.predicate, substitution_map,
                             forbidden_variables, bound \cup {formula.variable})

(***************************************************************************)
(* Calls of Term.substitute and Formula.substitute.                        *)
(***************************************************************************)
MaxTermDepth == 1

SubstAtoms == { Atom("x"), Atom("y"), Atom("c") }

RECURSIVE TermsUpTo(_)
TermsUpTo(d) ==
    IF d = 0 THEN SubstAtoms
    ELSE LET sub == TermsUpTo(d - 1)
         IN  sub \cup { Term("f", <<s1, s2>>) : s1 \in sub, s2 \in sub }

SubstMaps ==
    LET images == SubstAtoms \cup { Term("plus", <<Atom("d"), v>>) :
                                       v \in {Atom("x"), Atom("y")} }
    IN  UNION { [keys -> images] : keys \in SUBSET {"x", "c"} }

SubstFormulas ==
    LET SubstAtomic ==
            { Relation("R", <<t>>) : t \in TermsUpTo(MaxTermDepth) }
            \cup { Equality(t1, t2) : t1 \in SubstAtoms, t2 \in SubstAtoms }
        SubstQuantified ==
            { Quantified(q, v, f) :
                  q \in {"A", "E"}, v \in {"x", "y"}, f \in SubstAtomic }
    IN  SubstAtomic \cup SubstQuantified
        \cup { Unary(f) : f \in SubstAtomic }
        \cup { Binary("&", Relation("R", <<t>>), f) :
                   t \in {Atom("x"), Atom("c")},
                   f \in { g \in SubstQuantified :
                              g.root = "A" /\ g.predicate.root = "=" } }
        \cup { Quantified("A", v, f) :
                   v \in {"x", "y"},
                   f \in { g \in SubstQuantified :
                              g.root = "E" /\ g.predicate.root = "=" } }

InitSubstitute ==
    /\ pc = "start"
    /\ \E self \in TermsUpTo(MaxTermDepth) \cup SubstFormulas,
          substitution_map \in SubstMaps,
          forbidden_variables \in SUBSET {"x", "y"} :
              arg = [self |-> self, substitution_map |-> substitution_map,
                     forbidden_variables |-> forbidden_variables]
    /\ ret = NoValue
    /\ heap = NoValue

\* the call returns the result or raises the exception with one variable name
Returns(result) ==
    IF is_raised(result)
    THEN \E v \in result.variable_name :
             ret' = [raised |-> result.raised, variable_name |-> v]
    ELSE ret' = result

CallTermSubstitute ==
    /\ pc = "start"
    /\ arg.self \in TermsUpTo(MaxTermDepth)
    /\ Returns(Term_substitute(arg.self, arg.substitution_map,
                               arg.forbidden_variables))
    /\ pc' = "Term.substitute"
    /\ UNCHANGED <<arg, heap>>

CallFormulaSubstitute ==
    /\ pc = "start"
    /\ arg.self \in SubstFormulas
    /\ Returns(Formula_substitute(arg.self, arg.substitution_map,
                                  arg.forbidden_variables))
    /\ pc' = "Formula.substitute"
    /\ UNCHANGED <<arg, heap>>

NextSubstitute == CallTermSubstitute \/ CallFormulaSubstitute

SpecSubstitute == InitSubstitute /\ [][NextSubstitute]_vars

\* C7: Formula.substitute raises ForbiddenVariableError carrying an offending
\* variable name whenever the image of a name with a free occurrence contains
\* a variable that is forbidden or bound at that occurrence, and otherwise
\* returns the substituted formula
C7_FormulaSubstituteRaises ==
    pc = "Formula.substitute" =>
        LET offending == offending_variables(arg.self, arg.substitution_map,
                                             arg.forbidden_variables, {})
        IN  IF offending # {}
            THEN is_raised(ret) /\ ret.variable_name \in offending
            ELSE ret = substituted_formula(arg.self, arg.substitution_map, {})

\* C8: when no image contains a forbidden variable, Term.substitute returns
\* the term with every occurrence of a key replaced by its image, all at
\* once, also when a key is itself forbidden
C8_TermSubstitute ==
    pc = "Term.substitute" =>
        ( (\A k \in DOMAIN arg.substitution_map :
               Term_variables(arg.substitution_map[k])
                   \cap arg.forbidden_variables = {})
          => ret = substituted_term(arg.self, arg.substitution_map, {}) )

(***************************************************************************)
(* Formula.variables and Formula.free_variables with their memoization.    *)
(* Formula objects are numbered; the sub-formulas of an object are objects *)
(* with smaller numbers, which several objects may share.  The result a    *)
(* method memoizes is a reference to a set object, and every later call    *)
(* returns that same set object.                                           *)
(***************************************************************************)
MaxObjects == 3

\* no result has been memoized
NoMemo == 0

\* the formula objects that can be built when objects 1 .. n exist: the
\* equalities and relation invocations, and the objects with sub-formulas
MemoNodes(n) ==
    { Relation("R", <<Atom("x")>>), Relation("Q", <<Atom("x"), Atom("y")>>),
      Equality(Atom("y"), Atom("c")) }
    \cup { Unary(j) : j \in 1 .. n }
    \cup { Binary("&", j, k) : j \in 1 .. n, k \in 1 .. n }
    \cup { Quantified("A", v, j) : v \in {"x", "y"}, j \in 1 .. n }

RECURSIVE ObjectGraphs(_)
ObjectGraphs(n) ==
    IF n = 0 THEN { <<>> }
    ELSE { Append(g, node) : g \in ObjectGraphs(n - 1), node \in MemoNodes(n - 1) }

\* the formula an object stands for
RECURSIVE formula_of(_, _)
formula_of(objects, o) ==
    LET self == objects[o]
    IN  IF is_equality(self.root) \/ is_relation(self.root) THEN self
        ELSE IF predicates_is_unary(self.root)
        THEN Unary(formula_of(objects, self.first))
        ELSE IF predicates_is_binary(self.root)
        THEN Binary(self.root, formula_of(objects, self.first),
                    formula_of(objects, self.second))
        ELSE Quantified(self.root, self.variable,
                        formula_of(objects, self.predicate))

\* a new set object with the given elements, memoized for method of object o
memoize_new(h, method, o, elements) ==
    [h EXCEPT !.sets = Append(@, elements),
              ![method][o] = Len(h.sets) + 1,
              !.result = Len(h.sets) + 1]

\* an existing set object, memoized for method of object o
memoize_same(h, method, o, reference) ==
    [h EXCEPT ![method][o] = reference, !.result = reference]

\* the heap after self.variables(); its field result refers to the returned set
RECURSIVE Formula_variables(_, _, _)
Formula_variables(objects, h, o) ==
    LET self == objects[o]
    IN  IF h.variables[o] # NoMemo THEN [h EXCEPT !.result = h.variables[o]]
        ELSE IF is_equality(self.root) \/ is_relation(self.root) THEN
            memoize_new(h, "variables", o,
                UNION { Term_variables(self.arguments[i]) :
                        i \in DOMAIN self.arguments })
        ELSE IF predicates_is_unary(self.root) THEN
            LET h1 == Formula_variables(objects, h, self.first)
            IN  memoize_same(h1, "variables", o, h1.result)
        ELSE IF predicates_is_binary(self.root) THEN
            LET h1 == Formula_variables(objects, h, self.first)
                h2 == Formula_variables(objects, h1, self.second)
            IN  memoize_new(h2, "variables", o,
                            h2.sets[h1.result] \cup h2.sets[h2.result])
        ELSE
            LET h1 == Formula_variables(objects, h, self.predicate)
            IN  memoize_new(h1, "variables", o,
                            h1.sets[h1.result] \cup {self.variable})

\* the heap after self.free_variables()
RECURSIVE Formula_free_variables(_, _, _)
Formula_free_variables(objects, h, o) ==
    LET self == objects[o]
    IN  IF h.free_variables[o] # NoMemo
        THEN [h EXCEPT !.result = h.free_variables[o]]
        ELSE IF is_equality(self.root) \/ is_relation(self.root) THEN
            memoize_new(h, "free_variables", o,
                UNION { Term_variables(self.arguments[i]) :
                        i \in DOMAIN self.arguments })
        ELSE IF predicates_is_unary(self.root) THEN
            LET h1 == Formula_free_variables(objects, h, self.first)
            IN  memoize_same(h1, "free_variables", o, h1.result)
        ELSE IF predicates_is_binary(self.root) THEN
            LET h1 == Formula_free_variables(objects, h, self.first)
                h2 == Formula_free_variables(objects, h1, self.second)
            IN  memoize_new(h2, "free_variables", o,
                            h2.sets[h1.result] \cup h2.sets[h2.result])
        ELSE
            \* x = self.predicate.free_variables(); x.discard(self.variable)
            LET h1 == Formula_free_variables(objects, h, self.predicate)
                x == h1.result
            IN  memoize_same([h1 EXCEPT !.sets[x] = @ \ {self.variable}],
                             "free_variables", o, x)

\* the variable names with an occurrence in the formula outside every
\* quantification over that name
RECURSIVE free_variable_names(_)
free_variable_names(formula) ==
    IF is_equality(formula.root) \/ is_relation(formula.root) THEN
        UNION { Term_variables(formula.arguments[i]) :
                i \in DOMAIN formula.arguments }
    ELSE IF predicates_is_unary(formula.root)
    THEN free_variable_names(formula.first)
    ELSE IF predicates_is_binary(formula.root)
    THEN free_variable_names(formula.first) \cup free_variable_names(formula.second)
    ELSE free_variable_names(formula.predicate) \ {formula.variable}

\* the variable names used in the formula, quantified names included
RECURSIVE variable_names(_)
variable_names(formula) ==
    IF is_equality(formula.root) \/ is_relation(formula.root) THEN
        UNION { Term_variables(formula.arguments[i]) :
                i \in DOMAIN formula.arguments }
    ELSE IF predicates_is_unary(formula.root)
    THEN variable_names(formula.first)
    ELSE IF predicates_is_binary(formula.root)
    THEN variable_names(formula.first) \cup variable_names(formula.second)
    ELSE variable_names(formula.predicate) \cup {formula.variable}

InitMemo ==
    /\ pc = "start"
    /\ \E objects \in ObjectGraphs(MaxObjects) :
           /\ arg = [objects |-> objects, self |-> 1]
           /\ heap = [variables |-> [o \in DOMAIN objects |-> NoMemo],
                      free_variables |-> [o \in DOMAIN objects |-> NoMemo],
                      sets |-> <<>>, result |-> NoMemo]
    /\ ret = NoValue

CallVariables ==
    \E o \in DOMAIN arg.objects :
        /\ heap' = Formula_variables(arg.objects, heap, o)
        /\ ret' = heap'.sets[heap'.result]
        /\ arg' = [arg EXCEPT !.self = o]
        /\ pc' = "variables"

CallFreeVariables ==
    \E o \in DOMAIN arg.objects :
        /\ heap' = Formula_free_variables(arg.objects, heap, o)
        /\ ret' = heap'.sets[heap'.result]
        /\ arg' = [arg EXCEPT !.self = o]
        /\ pc' = "free_variables"

\* substitute calls self.free_variables() and then substitutes in the
\* sub-formulas, each of which is memoized by then
CallSubstitute ==
    \E o \in DOMAIN arg.objects :
        /\ heap' = Formula_free_variables(arg.objects, heap, o)
        /\ Returns(Formula_substitute(formula_of(arg.objects, o),
                                      [k \in {"y"} |-> Atom("c")], {}))
        /\ arg' = [arg EXCEPT !.self = o]
        /\ pc' = "substitute"

NextMemo == CallVariables \/ CallFreeVariables \/ CallSubstitute

SpecMemo == InitMemo /\ [][NextMemo]_vars

\* C9: after any sequence of variables(), free_variables() and substitute()
\* calls on formulas that may share sub-formula objects, free_variables()
\* returns exactly the names with a free occurrence in the formula, and
\* variables() those names and the quantified names
C9_FreeVariablesStable ==
    /\ pc = "free_variables" =>
           ret = free_variable_names(formula_of(arg.objects, arg.self))
    /\ pc = "variables" =>
           ret = variable_names(formula_of(arg.objects, arg.self))

(***************************************************************************)
(* predicates/proofs.py and predicates/prover.py: schemas, proofs and the  *)
(* proof builder, as far as the functions modelled below use them.         *)
(***************************************************************************)
\* Schema(formula): an assumption without templates
Schema(formula) == [formula |-> formula, templates |-> {}]

\* '(Ax[(Q()->R(x))]->(Q()->Ax[R(x)]))' with templates Q, R, x
US ==
    LET Q == Relation("Q", <<>>)
        Rx == Relation("R", <<Atom("x")>>)
    IN  [formula |-> Binary("->", Quantified("A", "x", Binary("->", Q, Rx)),
                            Binary("->", Q, Quantified("A", "x", Rx))),
         templates |-> {"Q", "R", "x"}]

\* Prover.AXIOMS: UI, EI, US, ES, RX, ME
AXIOMS ==
    LET Rx == Relation("R", <<Atom("x")>>)
        Rc == Relation("R", <<Atom("c")>>)
        Q == Relation("Q", <<>>)
    IN  { [formula |-> Binary("->", Quantified("A", "x", Rx), Rc),
           templates |-> {"R", "x", "c"}],
          [formula |-> Binary("->", Rc, Quantified("E", "x", Rx)),
           templates |-> {"R", "x", "c"}],
          US,
          [formula |-> Binary("->",
                           Binary("&", Quantified("A", "x", Binary("->", Rx, Q)),
                                  Quantified("E", "x", Rx)), Q),
           templates |-> {"Q", "R", "x"}],
          [formula |-> Equality(Atom("c"), Atom("c")), templates |-> {"c"}],
          [formula |-> Binary("->", Equality(Atom("c"), Atom("d")),
                           Binary("->", Rc, Relation("R", <<Atom("d")>>))),
           templates |-> {"R", "c", "d"}] }

\* the outcome of a call that raises the named exception
Exception(name) == [raised |-> name]

\* Schema.instantiate for instantiation maps that give variable names to the
\* variable templates and formulas to the relation templates: a template
\* relation invocation becomes the formula given for it, with the placeholder
\* '_' replaced by the instantiated argument.
RECURSIVE instantiate(_, _, _)
instantiate(formula, instantiation_map, bound_variables) ==
    LET name(v) == IF v \in DOMAIN instantiation_map
                   THEN instantiation_map[v] ELSE v
        arguments == [i \in DOMAIN formula.arguments |->
                         Atom(name(formula.arguments[i].root))]
    IN  IF is_equality(formula.root) THEN Relation(formula.root, arguments)
        ELSE IF is_relation(formula.root) THEN
            IF formula.root \notin DOMAIN instantiation_map
            THEN Relation(formula.root, arguments)
            ELSE LET template == instantiation_map[formula.root]
                 IN  IF free_variable_names(template) \cap bound_variables # {}
                     THEN Exception("BoundVariableError")
                     ELSE IF arguments = << >> THEN template
                     ELSE LET instance == Formula_substitute(
                                  template, [c \in {"_"} |-> arguments[1]], {})
                          IN  IF is_raised(instance) THEN Exception("BoundVariableError")
                              ELSE instance
        ELSE IF predicates_is_unary(formula.root) THEN
            Once(instantiate(formula.first, instantiation_map, bound_variables),
                 LAMBDA first_ : IF is_raised(first_) THEN first_ ELSE Unary(first_))
        ELSE IF predicates_is_binary(formula.root) THEN
            Once(instantiate(formula.first, instantiation_map, bound_variables),
                 LAMBDA first_ :
            Once(instantiate(formula.second, instantiation_map, bound_variables),
                 LAMBDA second_ :
                IF is_raised(first_) THEN first_
                ELSE IF is_raised(second_) THEN second_
                ELSE Binary(formula.root, first_, second_)))
        ELSE
            Once(instantiate(formula.predicate, instantiation_map,
                             bound_variables \cup {name(formula.variable)}),
                 LAMBDA predicate :
                     IF is_raised(predicate) THEN predicate
                     ELSE Quantified(formula.root, name(formula.variable), predicate))

\* the outermost sub-formulas that are not built by '~', '&', '|' or '->'
RECURSIVE skeleton_atoms(_)
skeleton_atoms(formula) ==
    IF predicates_is_unary(formula.root) THEN skeleton_atoms(formula.first)
    ELSE IF predicates_is_binary(formula.root)
    THEN skeleton_atoms(formula.first) \cup skeleton_atoms(formula.second)
    ELSE {formula}

\* the truth value of the propositional skeleton when exactly the sub-formulas
\* in true_atoms are true
RECURSIVE skeleton_value(_, _)
skeleton_value(formula, true_atoms) ==
    IF predicates_is_unary(formula.root)
    THEN ~ skeleton_value(formula.first, true_atoms)
    ELSE IF formula.root = "&"
    THEN skeleton_value(formula.first, true_atoms)
             /\ skeleton_value(formula.second, true_atoms)
    ELSE IF formula.root = "|"
    THEN skeleton_value(formula.first, true_atoms)
             \/ skeleton_value(formula.second, true_atoms)
    ELSE IF formula.root = "->"
    THEN skeleton_value(formula.first, true_atoms)
             => skeleton_value(formula.second, true_atoms)
    ELSE formula \in true_atoms

is_propositional_tautology(formula) ==
    \A true_atoms \in SUBSET skeleton_atoms(formula) :
        skeleton_value(formula, true_atoms)

\* the lines of a proof
AssumptionLineOf(formula, assumption, instantiation_map) ==
    [type |-> "AssumptionLine", formula |-> formula, assumption |-> assumption,
     instantiation_map |-> instantiation_map]

MPLine(formula, antecedent_line_number, conditional_line_number) ==
    [type |-> "MPLine", formula |-> formula,
     antecedent_line_number |-> antecedent_line_number,
     conditional_line_number |-> conditional_line_number]

UGLine(formula, predicate_line_number) ==
    [type |-> "UGLine", formula |-> formula,
     predicate_line_number |-> predicate_line_number]

TautologyLine(formula) == [type |-> "TautologyLine", formula |-> formula]

\* Proof.Line.is_valid of line number n of lines, from the given assumptions
predicates_is_line_valid(assumptions, lines, n) ==
    LET line == At(lines, n)
    IN  IF line.type = "AssumptionLine" THEN
            /\ line.assumption \in assumptions
            /\ DOMAIN line.instantiation_map \subseteq line.assumption.templates
            /\ ~ is_raised(line.formula)
            /\ line.formula = instantiate(line.assumption.formula,
                                          line.instantiation_map, {})
        ELSE IF line.type = "MPLine" THEN
            /\ line.antecedent_line_number \in 0 .. n - 1
            /\ line.conditional_line_number \in 0 .. n - 1
            /\ At(lines, line.conditional_line_number).formula =
                   Binary("->", At(lines, line.antecedent_line_number).formula,
                          line.formula)
        ELSE IF line.type = "UGLine" THEN
            /\ line.predicate_line_number \in 0 .. n - 1
            /\ line.formula.root = "A"
            /\ line.formula.predicate = At(lines, line.predicate_line_number).formula
        ELSE is_propositional_tautology(line.formula)

\* Proof.is_valid; a proof is [assumptions, conclusion, lines, raised]
predicates_is_valid(proof) ==
    /\ ~ proof.raised
    /\ Len(proof.lines) > 0
    /\ Last(proof.lines).formula = proof.conclusion
    /\ \A n \in 0 .. Len(proof.lines) - 1 :
           predicates_is_line_valid(proof.assumptions, proof.lines, n)

\* Prover.qed of a prover [assumptions, lines, raised]
qed(prover) ==
    Once(prover, LAMBDA self :
        [assumptions |-> self.assumptions,
         conclusion |-> IF self.lines = <<>> THEN NoValue
                        ELSE Last(self.lines).formula,
         lines |-> self.lines, raised |-> self.raised])

\* Prover.add_*: the line is appended if it is valid, else the call raises
add_line(prover, line) ==
    Once(Append(prover.lines, line), LAMBDA lines :
        IF prover.raised
           \/ ~ predicates_is_line_valid(prover.assumptions, lines, Len(lines) - 1)
        THEN [prover EXCEPT !.raised = TRUE]
        ELSE [prover EXCEPT !.lines = lines])

\* '(f1->(f2->...(fn->implication)))' for the formulas of the cited lines,
\* from the cited line number at position i of the sorted line numbers on
RECURSIVE encoded_implication(_, _, _, _)
encoded_implication(prover, implication, sorted_numbers, i) ==
    IF i > Len(sorted_numbers) THEN implication
    ELSE Binary("->", At(prover.lines, sorted_numbers[i]).formula,
                encoded_implication(prover, implication, sorted_numbers, i + 1))

\* Prover.add_tautological_implication: a tautology line with the encoded
\* implication, then one MP line for each cited line
RECURSIVE add_tautological_implication_from(_, _, _, _)
add_tautological_implication_from(prover, implication, sorted_numbers, i) ==
    IF i = 0
    THEN add_line(prover,
             TautologyLine(encoded_implication(prover, implication, sorted_numbers, 1)))
    ELSE Once(add_tautological_implication_from(prover, implication,
                                                sorted_numbers, i - 1),
              LAMBDA before :
                  IF before.raised THEN before
                  ELSE add_line(before,
                           MPLine(Last(before.lines).formula.second,
                                  sorted_numbers[i], Len(before.lines) - 1)))

\* the elements of a set of line numbers in increasing order
RECURSIVE sorted(_)
sorted(numbers) ==
    IF numbers = {} THEN <<>>
    ELSE LET least == CHOOSE n \in numbers : \A k \in numbers : n <= k
         IN  <<least>> \o sorted(numbers \ {least})

add_tautological_implication(prover, implication, line_numbers) ==
    add_tautological_implication_from(prover, implication, sorted(line_numbers),
                                      Cardinality(line_numbers))

(***************************************************************************)
(* predicates/semantics.py: a model is [universe, constant_meanings,       *)
(* relation_meanings]                                                      *)
(***************************************************************************)
RECURSIVE Term_constants(_)
Term_constants(self) ==
    IF is_function(self.root)
    THEN UNION { Term_constants(self.arguments[i]) : i \in DOMAIN self.arguments }
    ELSE IF predicates_is_constant(self.root) THEN {self.root}
    ELSE {}

RECURSIVE Formula_constants(_)
Formula_constants(self) ==
    IF is_equality(self.root) \/ is_relation(self.root) THEN
        UNION { Term_constants(self.arguments[i]) : i \in DOMAIN self.arguments }
    ELSE IF predicates_is_unary(self.root) THEN Formula_constants(self.first)
    ELSE IF predicates_is_binary(self.root)
    THEN Formula_constants(self.first) \cup Formula_constants(self.second)
    ELSE Formula_constants(self.predicate)

\* the pairs <<relation name, arity>> of the relation invocations
RECURSIVE Formula_relations(_)
Formula_relations(self) ==
    IF is_relation(self.root) THEN { <<self.root, Len(self.arguments)>> }
    ELSE IF is_equality(self.root) THEN {}
    ELSE IF predicates_is_unary(self.root) THEN Formula_relations(self.first)
    ELSE IF predicates_is_binary(self.root)
    THEN Formula_relations(self.first) \cup Formula_relations(self.second)
    ELSE Formula_relations(self.predicate)

\* the assertions of Model.evaluate_formula hold: every constant and every
\* relation name of the formula has a meaning in the model
has_meanings(model, formula) ==
    /\ Formula_constants(formula) \subseteq DOMAIN model.constant_meanings
    /\ \A r \in Formula_relations(formula) : r[1] \in DOMAIN model.relation_meanings

\* Model.evaluate_formula for formulas without function invocations
RECURSIVE evaluate_formula(_, _, _)
evaluate_formula(model, formula, assignment) ==
    LET value(term) == IF predicates_is_constant(term.root)
                       THEN model.constant_meanings[term.root]
                       ELSE assignment[term.root]
        values == [i \in DOMAIN formula.arguments |-> value(formula.arguments[i])]
        extended(element) ==
            [v \in DOMAIN assignment \cup {formula.variable} |->
                IF v = formula.variable THEN element ELSE assignment[v]]
    IN  IF is_equality(formula.root) THEN values[1] = values[2]
        ELSE IF is_relation(formula.root)
        THEN values \in model.relation_meanings[formula.root]
        ELSE IF predicates_is_unary(formula.root)
        THEN ~ evaluate_formula(model, formula.first, assignment)
        ELSE IF formula.root = "&"
        THEN evaluate_formula(model, formula.first, assignment)
                 /\ evaluate_formula(model, formula.second, assignment)
        ELSE IF formula.root = "|"
        THEN evaluate_formula(model, formula.first, assignment)
                 \/ evaluate_formula(model, formula.second, assignment)
        ELSE IF formula.root = "->"
        THEN evaluate_formula(model, formula.first, assignment)
                 => evaluate_formula(model, formula.second, assignment)
        ELSE IF formula.root = "A"
        THEN \A element \in model.universe :
                 evaluate_formula(model, formula.predicate, extended(element))
        ELSE \E element \in model.universe :
                 evaluate_formula(model, formula.predicate, extended(element))

(***************************************************************************)
(* predicates/prenex.py and predicates/completeness.py                     *)
(***************************************************************************)
RECURSIVE is_quantifier_free(_)
is_quantifier_free(formula) ==
    IF is_equality(formula.root) \/ is_relation(formula.root) THEN TRUE
    ELSE IF is_quantifier(formula.root) THEN FALSE
    ELSE IF predicates_is_binary(formula.root)
    THEN is_quantifier_free(formula.first) /\ is_quantifier_free(formula.second)
    ELSE is_quantifier_free(formula.first)

RECURSIVE is_in_prenex_normal_form(_)
is_in_prenex_normal_form(formula) ==
    IF is_quantifier(formula.root)
    THEN is_in_prenex_normal_form(formula.predicate)
    ELSE is_quantifier_free(formula)

get_constants(formulas) == UNION { Formula_constants(f) : f \in formulas }

\* predicate.substitute({variable: Term(c)})
instantiated(sentence, c) ==
    Formula_substitute(sentence.predicate,
                       [v \in {sentence.variable} |-> Atom(c)], {})

is_primitively_closed(sentences) ==
    LET constants == { Atom(c) : c \in get_constants(sentences) }
        relations == UNION { Formula_relations(f) : f \in sentences }
        primitives ==
            { <<f.root, f.arguments>> :
                  f \in { g \in sentences : is_relation(g.root) } }
            \cup { <<f.first.root, f.first.arguments>> :
                  f \in { g \in sentences : /\ predicates_is_unary(g.root)
                                            /\ is_relation(g.first.root) } }
    IN  \A r \in relations : \A arguments \in [1 .. r[2] -> constants] :
            <<r[1], arguments>> \in primitives

is_universally_closed(sentences) ==
    \A f \in { g \in sentences : g.root = "A" } :
        \A c \in get_constants(sentences) : instantiated(f, c) \in sentences

\* variant that asks for no witness of an existential sentence
is_existentially_closed_unchecked(sentences) ==
    \A f \in { g \in sentences : g.root = "E" } : TRUE

is_existentially_closed(sentences) ==
    \A f \in { g \in sentences : g.root = "E" } :
        \E c \in get_constants(sentences) : instantiated(f, c) \in sentences

is_closed(sentences) ==
    /\ is_primitively_closed(sentences)
    /\ is_universally_closed(sentences)
    /\ is_existentially_closed(sentences)

_not(f) == Unary(f)

\* the result None
NoFormula == [root |-> NoValue]

\* The results find_unsatisfied_quantifier_free_sentence can return; the
\* order in which the loop visits the universe, a set, is not fixed.
RECURSIVE find_unsatisfied_quantifier_free_sentence(_, _, _)
find_unsatisfied_quantifier_free_sentence(sentences, model, unsatisfied) ==
    IF is_quantifier(unsatisfied.root) THEN
        LET contained == { c \in model.universe :
                               instantiated(unsatisfied, c) \in sentences }
            failing == { c \in contained :
                             ~ has_meanings(model, instantiated(unsatisfied, c)) }
            found == { c \in contained \ failing :
                           ~ evaluate_formula(model, instantiated(unsatisfied, c),
                                              << >>) }
        IN  (IF failing = {} THEN {} ELSE {Exception("AssertionError")})
            \cup (IF found = {} /\ failing = {} THEN {NoFormula} ELSE {})
            \cup UNION { find_unsatisfied_quantifier_free_sentence(
                             sentences, model, instantiated(unsatisfied, c)) :
                         c \in found }
    ELSE {unsatisfied}

\* an equality has no primitives to return: the function falls off its end
RECURSIVE get_primitives(_)
get_primitives(quantifier_free) ==
    IF predicates_is_unary(quantifier_free.root)
    THEN get_primitives(quantifier_free.first)
    ELSE IF predicates_is_binary(quantifier_free.root)
    THEN get_primitives(quantifier_free.first)
             \cup get_primitives(quantifier_free.second)
    ELSE IF is_relation(quantifier_free.root) THEN {quantifier_free}
    ELSE NoValue

_is_primitive_or_its_negation(formula) ==
    IF predicates_is_unary(formula.root) THEN is_relation(formula.first.root)
    ELSE is_relation(formula.root)

\* The results model_or_inconsistency can produce; the order in which the loops
\* visit the sentences and the primitives, which are sets, is not fixed.
model_or_inconsistency(sentences) ==
    LET primitives == { s \in sentences : _is_primitive_or_its_negation(s) }
        universe == get_constants(sentences)
        positive == { s \in primitives : ~ predicates_is_unary(s.root) }
        model ==
            [universe |-> universe,
             constant_meanings |-> [c \in universe |-> c],
             relation_meanings |->
                 [name \in { s.root : s \in positive } |->
                     { [i \in DOMAIN s.arguments |-> s.arguments[i].root] :
                           s \in { g \in positive : g.root = name } }]]
        failing == { s \in sentences : ~ has_meanings(model, s) }
        falsified == { s \in sentences \ failing :
                           ~ evaluate_formula(model, s, << >>) }
        unsats == UNION { find_unsatisfied_quantifier_free_sentence(
                              sentences, model, s) : s \in falsified }
        \* the proof for unsat, with the assumption lines of unsat_primitives
        \* added in the given order
        proof(unsat, order) ==
            LET unsat_primitives == Range(order)
                formulas == <<unsat>> \o order
                prover ==
                    [assumptions |-> AXIOMS \cup { Schema(f) : f \in unsat_primitives }
                                         \cup { Schema(unsat) },
                     lines |-> [n \in DOMAIN formulas |->
                                   AssumptionLineOf(formulas[n],
                                                    Schema(formulas[n]), << >>)],
                     raised |-> FALSE]
            IN  qed(add_tautological_implication(
                        prover, Binary("&", unsat, _not(unsat)), 0 .. Len(order)))
        proofs(unsat) ==
            LET unsat_primitives == { IF f \in primitives THEN f ELSE _not(f) :
                                          f \in get_primitives(unsat) }
            IN  { proof(unsat, order) :
                      order \in { o \in [1 .. Cardinality(unsat_primitives)
                                             -> unsat_primitives] :
                                      Range(o) = unsat_primitives } }
    IN  (IF failing = {} THEN {} ELSE {Exception("AssertionError")})
        \cup (IF failing = {} /\ falsified = {} THEN {model} ELSE {})
        \cup { u \in unsats : is_raised(u) }
        \cup (IF NoFormula \in unsats THEN {Exception("AttributeError")} ELSE {})
        \cup UNION { proofs(u) : u \in { v \in unsats :
                                            ~ is_raised(v) /\ v # NoFormula } }

(***************************************************************************)
(* SpecCompleteness: is_closed and model_or_inconsistency are called on    *)
(* sets of at most MaxSentences prenex-normal-form sentences.              *)
(***************************************************************************)
MaxSentences == 4

Sentences ==
    LET R(t) == Relation("R", <<Atom(t)>>)
        Q(t) == Relation("Q", <<Atom(t)>>)
    IN  { R("a"), _not(R("a")), Q("a"), _not(Q("a")), R("c"), _not(R("c")),
          Binary("->", R("a"), Q("a")), Binary("&", R("a"), _not(R("a"))),
          Quantified("A", "x", R("x")), Quantified("E", "x", R("x")),
          Quantified("A", "x", _not(R("x"))), Quantified("E", "x", _not(Q("x"))),
          Quantified("A", "x", Binary("->", R("x"), Q("x"))),
          Quantified("A", "x", Quantified("E", "y", Binary("->", R("x"), Q("y")))),
          Quantified("E", "y", Binary("->", R("a"), Q("y"))) }

InitCompleteness ==
    /\ pc = "start"
    /\ \E sentences \in SUBSET Sentences :
           /\ Cardinality(sentences) <= MaxSentences
           /\ \A s \in sentences : /\ is_in_prenex_normal_form(s)
                                   /\ free_variable_names(s) = {}
           /\ arg = [sentences |-> sentences]
    /\ ret = NoValue
    /\ heap = NoValue

CallIsClosed ==
    /\ pc = "start"
    /\ ret' = is_closed(arg.sentences)
    /\ pc' = "is_closed"
    /\ UNCHANGED <<arg, heap>>

CallModelOrInconsistency ==
    /\ pc = "start"
    /\ is_closed(arg.sentences)
    /\ ret' \in model_or_inconsistency(arg.sentences)
    /\ pc' = "model_or_inconsistency"
    /\ UNCHANGED <<arg, heap>>

NextCompleteness == CallIsClosed \/ CallModelOrInconsistency

SpecCompleteness == InitCompleteness /\ [][NextCompleteness]_vars

\* C6: for a closed set S of prenex-normal-form sentences,
\* model_or_inconsistency(S) returns a model in which every sentence of S is
\* true, or a valid proof of a contradiction whose assumptions other than
\* Prover.AXIOMS are all sentences of S; a call that returns nothing of the two
\* violates this.
C6_ModelOrInconsistency ==
    pc = "model_or_inconsistency" =>
        \/ /\ "universe" \in DOMAIN ret
           /\ \A s \in arg.sentences : /\ has_meanings(ret, s)
                                       /\ evaluate_formula(ret, s, << >>)
        \/ /\ "lines" \in DOMAIN ret
           /\ predicates_is_valid(ret)
           /\ ret.conclusion.root = "&"
           /\ ret.conclusion.second = _not(ret.conclusion.first)
           /\ ret.assumptions \ AXIOMS
                  \subseteq { Schema(s) : s \in arg.sentences }

(***************************************************************************)
(* predicates/deduction.py                                                 *)
(***************************************************************************)
\* The body of the loop of remove_assumption for line number i; st is
\* [prover, index_map], and every add_* call returns the number of the last
\* line of the prover.
predicates_remove_assumption_step(proof, phi, st, i) ==
    LET line == At(proof.lines, i)
        prover == st.prover
        number(p) == Len(p.lines) - 1
        done(p) == [prover |-> p, index_map |-> Append(st.index_map, number(p))]
    IN  IF prover.raised THEN st
        ELSE IF line.type = "AssumptionLine" THEN
            IF line.formula = phi
            THEN done(add_line(prover, TautologyLine(Binary("->", phi, phi))))
            ELSE LET alpha == line.formula
                     step1 == add_line(prover,
                                       AssumptionLineOf(alpha, line.assumption,
                                                        line.instantiation_map))
                 IN  IF step1.raised THEN done(step1)
                     ELSE done(add_tautological_implication(
                              step1, Binary("->", phi, alpha), {number(step1)}))
        ELSE IF line.type = "MPLine" THEN
            done(add_tautological_implication(
                     prover, Binary("->", phi, line.formula),
                     { At(st.index_map, line.antecedent_line_number),
                       At(st.index_map, line.conditional_line_number) }))
        ELSE IF line.type = "TautologyLine" THEN
            done(add_line(prover, TautologyLine(Binary("->", phi, line.formula))))
        ELSE
            LET phi_imp_alpha_index == At(st.index_map, line.predicate_line_number)
                alpha == line.formula.predicate
                x == line.formula.variable
                ug_formula == Quantified("A", x, Binary("->", phi, alpha))
                step1 == add_line(prover, UGLine(ug_formula, phi_imp_alpha_index))
                inst_map == [Q |-> phi,
                             R |-> Formula_substitute(
                                       alpha, [v \in {x} |-> Atom("_")], {}),
                             x |-> x]
                conclusion == Binary("->", phi, Quantified("A", x, alpha))
                step2 == add_line(step1,
                                  AssumptionLineOf(Binary("->", ug_formula, conclusion),
                                                   US, inst_map))
            IN  IF step1.raised THEN done(step1)
                ELSE IF step2.raised THEN done(step2)
                ELSE done(add_line(step2, MPLine(conclusion, number(step1),
                                                 number(step2))))

RECURSIVE predicates_remove_assumption_loop(_, _, _, _)
predicates_remove_assumption_loop(proof, phi, st, n) ==
    IF n = 0 THEN st
    ELSE predicates_remove_assumption_step(
             proof, phi,
             predicates_remove_assumption_loop(proof, phi, st, n - 1), n - 1)

\* the asserts at the beginning of remove_assumption
predicates_remove_assumption_asserts(proof, assumption) ==
    /\ predicates_is_valid(proof)
    /\ Schema(assumption) \in proof.assumptions
    /\ AXIOMS \subseteq proof.assumptions
    /\ \A n \in 0 .. Len(proof.lines) - 1 :
           At(proof.lines, n).type = "UGLine" =>
               At(proof.lines, n).formula.variable
                   \notin free_variable_names(assumption)

\* remove_assumption with the assumption left among the assumptions
predicates_remove_assumption_kept(proof, assumption) ==
    qed(predicates_remove_assumption_loop(
            proof, assumption,
            [prover |-> [assumptions |-> proof.assumptions,
                         lines |-> << >>, raised |-> FALSE],
             index_map |-> << >>],
            Len(proof.lines)).prover)

predicates_remove_assumption(proof, assumption) ==
    qed(predicates_remove_assumption_loop(
            proof, assumption,
            [prover |-> [assumptions |-> proof.assumptions \ {Schema(assumption)},
                         lines |-> << >>, raised |-> FALSE],
             index_map |-> << >>],
            Len(proof.lines)).prover)

(***************************************************************************)
(* SpecPredicateDeduction: a prover builds a valid proof of at most        *)
(* MaxProofLines lines from Prover.AXIOMS and two assumptions without      *)
(* templates; remove_assumption is then called for the first of the two.   *)
(***************************************************************************)
MaxProofLines == 3

InitPredicateDeduction ==
    /\ pc = "build"
    /\ LET Rc == Relation("R", <<Atom("c")>>)
           Qx == Relation("Q", <<Atom("x")>>)
           \* the assumptions without templates
           AssumptionFormulas == { Rc, Qx, Binary("->", Rc, Qx) }
       IN  \E assumption \in AssumptionFormulas, other \in AssumptionFormulas :
               arg = [proof |-> qed([assumptions |->
                                         AXIOMS \cup {Schema(assumption),
                                                      Schema(other)},
                                     lines |-> << >>, raised |-> FALSE]),
                      assumption |-> assumption]
    /\ ret = NoValue
    /\ heap = NoValue

\* the prover appends the line if the line is valid
Added(line) ==
    /\ pc = "build"
    /\ Len(arg.proof.lines) < MaxProofLines
    /\ LET prover == add_line([assumptions |-> arg.proof.assumptions,
                               lines |-> arg.proof.lines, raised |-> FALSE], line)
       IN  /\ ~ prover.raised
           /\ arg' = [arg EXCEPT !.proof = qed(prover)]
    /\ UNCHANGED <<pc, ret, heap>>

AddAssumption ==
    \E schema \in arg.proof.assumptions \ AXIOMS :
        Added(AssumptionLineOf(schema.formula, schema, << >>))

AddInstantiatedAssumption ==
    \E x \in {"x", "y"} :
        LET instantiation_map == [Q |-> arg.assumption,
                                  R |-> Relation("Q", <<Atom("_")>>), x |-> x]
        IN  Added(AssumptionLineOf(
                      instantiate(US.formula, instantiation_map, {}), US,
                      instantiation_map))

AddTautology ==
    \E schema \in arg.proof.assumptions \ AXIOMS :
        \/ Added(TautologyLine(Binary("->", schema.formula,
                                      Binary("->", arg.assumption, schema.formula))))
        \/ Added(TautologyLine(Binary("|", schema.formula, _not(schema.formula))))

AddMP ==
    \E j \in 0 .. Len(arg.proof.lines) - 1, k \in 0 .. Len(arg.proof.lines) - 1 :
        /\ At(arg.proof.lines, k).formula.root = "->"
        /\ Added(MPLine(At(arg.proof.lines, k).formula.second, j, k))

AddUG ==
    \E j \in 0 .. Len(arg.proof.lines) - 1, x \in {"x", "y"} :
        Added(UGLine(Quantified("A", x, At(arg.proof.lines, j).formula), j))

CallPredicatesRemoveAssumption ==
    /\ pc = "build"
    /\ Len(arg.proof.lines) > 0
    /\ ret' = IF predicates_remove_assumption_asserts(arg.proof, arg.assumption)
              THEN predicates_remove_assumption(arg.proof, arg.assumption)
              ELSE [assumptions |-> {}, conclusion |-> NoFormula, lines |-> << >>,
                    raised |-> TRUE]
    /\ pc' = "remove_assumption"
    /\ UNCHANGED <<arg, heap>>

NextPredicateDeduction ==
    \/ AddAssumption \/ AddInstantiatedAssumption \/ AddTautology
    \/ AddMP \/ AddUG \/ CallPredicatesRemoveAssumption

SpecPredicateDeduction == InitPredicateDeduction /\ [][NextPredicateDeduction]_vars

\* C4: for a valid proof P whose assumptions include Prover.AXIOMS and the
\* assumption a without templates, with no UG line over a variable free in a,
\* remove_assumption(P, a) is a valid proof of '(a->c)' for the conclusion c of
\* P, from the assumptions of P without Schema(a), and for every line of P
\* with formula z it has a line with formula '(a->z)'.
C4_PredicatesRemoveAssumption ==
    ( /\ pc = "remove_assumption"
      /\ predicates_remove_assumption_asserts(arg.proof, arg.assumption) ) =>
        /\ predicates_is_valid(ret)
        /\ ret.conclusion = Binary("->", arg.assumption, arg.proof.conclusion)
        /\ ret.assumptions = arg.proof.assumptions \ {Schema(arg.assumption)}
        /\ \A i \in 0 .. Len(arg.proof.lines) - 1 :
               \E j \in 0 .. Len(ret.lines) - 1 :
                   At(ret.lines, j).formula =
                       Binary("->", arg.assumption, At(arg.proof.lines, i).formula)

\* remove_assumption has returned for a proof with a UG line and an assumption
\* line of another assumption
C4_Witness ==
    /\ pc = "remove_assumption"
    /\ predicates_remove_assumption_asserts(arg.proof, arg.assumption)
    /\ \E n \in 0 .. Len(arg.proof.lines) - 1 : At(arg.proof.lines, n).type = "UGLine"
    /\ \E n \in 0 .. Len(arg.proof.lines) - 1 :
           /\ At(arg.proof.lines, n).type = "AssumptionLine"
           /\ At(arg.proof.lines, n).formula # arg.assumption
    /\ ~ ret.raised

(***************************************************************************)
(* predicates/prenex.py                                                    *)
(***************************************************************************)
\* the schemas, from number 0 on; all have the templates R, x and, where they
\* occur, Q and y
ADDITIONAL_QUANTIFICATION_AXIOMS ==
    LET Rx == Relation("R", <<Atom("x")>>)
        Qx == Relation("Q", <<Atom("x")>>)
        Qy == Relation("Q", <<Atom("y")>>)
        Q == Relation("Q", << >>)
        A(f) == Quantified("A", "x", f)
        E(f) == Quantified("E", "x", f)
        iff(f, g) == Binary("&", Binary("->", f, g), Binary("->", g, f))
        with_Q(f) == [formula |-> f, templates |-> {"x", "R", "Q"}]
    IN  << [formula |-> iff(_not(A(Rx)), E(_not(Rx))), templates |-> {"x", "R"}],
           [formula |-> iff(_not(E(Rx)), A(_not(Rx))), templates |-> {"x", "R"}],
           with_Q(iff(Binary("&", A(Rx), Q), A(Binary("&", Rx, Q)))),
           with_Q(iff(Binary("&", E(Rx), Q), E(Binary("&", Rx, Q)))),
           with_Q(iff(Binary("&", Q, A(Rx)), A(Binary("&", Q, Rx)))),
           with_Q(iff(Binary("&", Q, E(Rx)), E(Binary("&", Q, Rx)))),
           with_Q(iff(Binary("|", A(Rx), Q), A(Binary("|", Rx, Q)))),
           with_Q(iff(Binary("|", E(Rx), Q), E(Binary("|", Rx, Q)))),
           with_Q(iff(Binary("|", Q, A(Rx)), A(Binary("|", Q, Rx)))),
           with_Q(iff(Binary("|", Q, E(Rx)), E(Binary("|", Q, Rx)))),
           with_Q(iff(Binary("->", A(Rx), Q), E(Binary("->", Rx, Q)))),
           with_Q(iff(Binary("->", E(Rx), Q), A(Binary("->", Rx, Q)))),
           with_Q(iff(Binary("->", Q, A(Rx)), A(Binary("->", Q, Rx)))),
           with_Q(iff(Binary("->", Q, E(Rx)), E(Binary("->", Q, Rx)))),
           [formula |-> Binary("->", iff(Rx, Qx),
                               iff(A(Rx), Quantified("A", "y", Qy))),
            templates |-> {"x", "y", "R", "Q"}],
           [formula |-> Binary("->", iff(Rx, Qx),
                               iff(E(Rx), Quantified("E", "y", Qy))),
            templates |-> {"x", "y", "R", "Q"}] >>

\* Prover(ALL_AXIOMS)
ALL_AXIOMS_Prover ==
    [assumptions |-> AXIOMS \cup Range(ADDITIONAL_QUANTIFICATION_AXIOMS),
     lines |-> << >>, raised |-> FALSE]

equivalence_of(formula1, formula2) ==
    Binary("&", Binary("->", formula1, formula2), Binary("->", formula2, formula1))

\* Prover.add_proof: the lines of the proof, which must have the given
\* conclusion and assumptions of the prover, with their line numbers shifted
add_proof(prover, conclusion, proof) ==
    IF \/ prover.raised
       \/ proof.raised
       \/ proof.conclusion # conclusion
       \/ ~ (proof.assumptions \subseteq prover.assumptions)
    THEN [prover EXCEPT !.raised = TRUE]
    ELSE LET offset == Len(prover.lines)
             shifted(line) ==
                 IF line.type = "MPLine"
                 THEN MPLine(line.formula, line.antecedent_line_number + offset,
                             line.conditional_line_number + offset)
                 ELSE IF line.type = "UGLine"
                 THEN UGLine(line.formula, line.predicate_line_number + offset)
                 ELSE line
         IN  [prover EXCEPT !.lines =
                  @ \o [n \in DOMAIN proof.lines |-> shifted(proof.lines[n])]]

\* has_uniquely_named_variables_helper: [result, forbidden_variables] after the
\* helper has visited the formula
RECURSIVE has_uniquely_named_variables_helper(_, _)
has_uniquely_named_variables_helper(formula, forbidden_variables) ==
    IF predicates_is_unary(formula.root)
    THEN has_uniquely_named_variables_helper(formula.first, forbidden_variables)
    ELSE IF predicates_is_binary(formula.root) THEN
        Once(has_uniquely_named_variables_helper(formula.first, forbidden_variables),
             LAMBDA first_ :
                 IF first_.result
                 THEN has_uniquely_named_variables_helper(formula.second,
                                                          first_.forbidden_variables)
                 ELSE first_)
    ELSE IF is_quantifier(formula.root) THEN
        IF formula.variable \in forbidden_variables
        THEN [result |-> FALSE, forbidden_variables |-> forbidden_variables]
        ELSE has_uniquely_named_variables_helper(
                 formula.predicate, forbidden_variables \cup {formula.variable})
    ELSE [result |-> TRUE, forbidden_variables |-> forbidden_variables]

has_uniquely_named_variables(formula) ==
    has_uniquely_named_variables_helper(formula,
                                        free_variable_names(formula)).result

\* variant in which the second operand of a binary operator is renamed with
\* the names that the first operand was renamed with, before the generator
\* moves on past the names of both
RECURSIVE _uniquely_rename_quantified_variables_restarting(_, _)
_uniquely_rename_quantified_variables_restarting(formula, generated) ==
    LET prover == ALL_AXIOMS_Prover
        number(p) == Len(p.lines) - 1
    IN  IF predicates_is_unary(formula.root) THEN
            Once(_uniquely_rename_quantified_variables_restarting(formula.first, generated),
                 LAMBDA sub :
            Once(add_proof(prover, sub.proof.conclusion, sub.proof), LAMBDA step :
                [formula |-> Unary(sub.formula),
                 proof |-> qed(add_tautological_implication(
                               step, equivalence_of(formula, Unary(sub.formula)),
                               {number(step)})),
                 generated |-> sub.generated]))
        ELSE IF predicates_is_binary(formula.root) THEN
            Once(_uniquely_rename_quantified_variables_restarting(formula.first, generated),
                 LAMBDA sub1 :
            Once(_uniquely_rename_quantified_variables_restarting(formula.second,
                                                                  generated),
                 LAMBDA sub2 :
            Once(add_proof(prover, sub1.proof.conclusion, sub1.proof), LAMBDA step1 :
            Once(add_proof(step1, sub2.proof.conclusion, sub2.proof), LAMBDA step2 :
            Once(Binary(formula.root, sub1.formula, sub2.formula), LAMBDA conclusion :
                [formula |-> conclusion,
                 proof |-> qed(add_tautological_implication(
                               step2, equivalence_of(formula, conclusion),
                               {number(step1), number(step2)})),
                 generated |-> sub1.generated + sub2.generated - generated])))))
        ELSE IF is_quantifier(formula.root) THEN
            Once(_uniquely_rename_quantified_variables_restarting(formula.predicate, generated),
                 LAMBDA sub :
            Once(add_proof(prover, sub.proof.conclusion, sub.proof), LAMBDA s1 :
            Once(<<"z1", "z2", "z3", "z4", "z5", "z6", "z7", "z8">>[sub.generated + 1],
                 LAMBDA z :
            Once(Quantified(formula.root, z,
                            Formula_substitute(sub.formula,
                                               [v \in {formula.variable} |-> Atom(z)],
                                               {})),
                 LAMBDA formula_to_return :
            Once([x |-> formula.variable, y |-> z,
                  R |-> Formula_substitute(formula.predicate,
                            [v \in {formula.variable} |-> Atom("_")], {}),
                  Q |-> Formula_substitute(formula_to_return.predicate,
                                           [v \in {z} |-> Atom("_")], {})],
                 LAMBDA instantiation_map :
            Once(add_line(s1, AssumptionLineOf(
                                  Binary("->", sub.proof.conclusion,
                                         equivalence_of(formula, formula_to_return)),
                                  At(ADDITIONAL_QUANTIFICATION_AXIOMS,
                                     IF formula.root = "A" THEN 14 ELSE 15),
                                  instantiation_map)),
                 LAMBDA s2 :
                [formula |-> formula_to_return,
                 proof |-> qed(add_line(s2, MPLine(
                                   equivalence_of(formula, formula_to_return),
                                   number(s1), number(s2)))),
                 generated |-> sub.generated + 1]))))))
        ELSE
            [formula |-> formula,
             proof |-> qed(add_tautological_implication(
                           prover, equivalence_of(formula, formula), {})),
             generated |-> generated]

\* The call returns [formula, proof, generated]; generated is the number of
\* names that fresh_variable_name_generator has generated so far, and the next
\* name it generates is 'z' followed by that number plus one.
RECURSIVE _uniquely_rename_quantified_variables(_, _)
_uniquely_rename_quantified_variables(formula, generated) ==
    LET prover == ALL_AXIOMS_Prover
        number(p) == Len(p.lines) - 1
    IN  IF predicates_is_unary(formula.root) THEN
            Once(_uniquely_rename_quantified_variables(formula.first, generated),
                 LAMBDA sub :
            Once(add_proof(prover, sub.proof.conclusion, sub.proof), LAMBDA step :
                [formula |-> Unary(sub.formula),
                 proof |-> qed(add_tautological_implication(
                               step, equivalence_of(formula, Unary(sub.formula)),
                               {number(step)})),
                 generated |-> sub.generated]))
        ELSE IF predicates_is_binary(formula.root) THEN
            Once(_uniquely_rename_quantified_variables(formula.first, generated),
                 LAMBDA sub1 :
            Once(_uniquely_rename_quantified_variables(formula.second,
                                                       sub1.generated),
                 LAMBDA sub2 :
            Once(add_proof(prover, sub1.proof.conclusion, sub1.proof), LAMBDA step1 :
            Once(add_proof(step1, sub2.proof.conclusion, sub2.proof), LAMBDA step2 :
            Once(Binary(formula.root, sub1.formula, sub2.formula), LAMBDA conclusion :
                [formula |-> conclusion,
                 proof |-> qed(add_tautological_implication(
                               step2, equivalence_of(formula, conclusion),
                               {number(step1), number(step2)})),
                 generated |-> sub2.generated])))))
        ELSE IF is_quantifier(formula.root) THEN
            Once(_uniquely_rename_quantified_variables(formula.predicate, generated),
                 LAMBDA sub :
            Once(add_proof(prover, sub.proof.conclusion, sub.proof), LAMBDA s1 :
            Once(<<"z1", "z2", "z3", "z4", "z5", "z6", "z7", "z8">>[sub.generated + 1],
                 LAMBDA z :
            Once(Quantified(formula.root, z,
                            Formula_substitute(sub.formula,
                                               [v \in {formula.variable} |-> Atom(z)],
                                               {})),
                 LAMBDA formula_to_return :
            Once([x |-> formula.variable, y |-> z,
                  R |-> Formula_substitute(formula.predicate,
                            [v \in {formula.variable} |-> Atom("_")], {}),
                  Q |-> Formula_substitute(formula_to_return.predicate,
                                           [v \in {z} |-> Atom("_")], {})],
                 LAMBDA instantiation_map :
            Once(add_line(s1, AssumptionLineOf(
                                  Binary("->", sub.proof.conclusion,
                                         equivalence_of(formula, formula_to_return)),
                                  At(ADDITIONAL_QUANTIFICATION_AXIOMS,
                                     IF formula.root = "A" THEN 14 ELSE 15),
                                  instantiation_map)),
                 LAMBDA s2 :
                [formula |-> formula_to_return,
                 proof |-> qed(add_line(s2, MPLine(
                                   equivalence_of(formula, formula_to_return),
                                   number(s1), number(s2)))),
                 generated |-> sub.generated + 1]))))))
        ELSE
            [formula |-> formula,
             proof |-> qed(add_tautological_implication(
                           prover, equivalence_of(formula, formula), {})),
             generated |-> generated]

\* The call returns [formula, proof].  swaps tells whether swap_function is
\* __swap_quantifier (else it is the identity), axioms is the number i for
\* QUANTIFIER_TO_AXIOM_MAPS[i], and the recursive call through
\* parent_rec_function, which passes the same three arguments again, first
\* checks the asserts of that function.
RECURSIVE __pull_out_quantifiers_across_all(_, _, _, _)
__pull_out_quantifiers_across_all(formula, is_left, swaps, axioms) ==
    LET unary == predicates_is_unary(formula.root)
        inner == IF is_left THEN formula.first ELSE formula.second
        Q == inner.root
        prover == ALL_AXIOMS_Prover
        number(p) == Len(p.lines) - 1
        asserts == IF unary THEN TRUE
                   ELSE /\ has_uniquely_named_variables(formula)
                        /\ predicates_is_binary(formula.root)
    IN  IF ~ asserts
        THEN [formula |-> NoFormula, proof |-> qed([prover EXCEPT !.raised = TRUE])]
        ELSE IF ~ is_quantifier(Q)
        THEN [formula |-> formula,
              proof |-> qed(add_line(prover, TautologyLine(
                                                 equivalence_of(formula, formula))))]
        ELSE
            LET x == inner.variable
                axiom == At(ADDITIONAL_QUANTIFICATION_AXIOMS,
                            2 * axioms + (IF Q = "A" THEN 0 ELSE 1))
                Qt == IF swaps THEN (IF Q = "A" THEN "E" ELSE "A") ELSE Q
                equiv_axiom == At(ADDITIONAL_QUANTIFICATION_AXIOMS,
                                  IF Qt = "A" THEN 14 ELSE 15)
                R == Formula_substitute(inner.predicate,
                                        [v \in {x} |-> Atom("_")], {})
            IN
            Once(IF unary THEN Unary(inner.predicate)
                 ELSE IF is_left
                 THEN Binary(formula.root, inner.predicate, formula.second)
                 ELSE Binary(formula.root, formula.first, inner.predicate),
                 LAMBDA n_pred :
            Once(__pull_out_quantifiers_across_all(n_pred, is_left, swaps, axioms),
                 LAMBDA sub :
                IF sub.proof.raised THEN sub ELSE
            Once(IF unary THEN [x |-> x, R |-> R]
                 ELSE [x |-> x, R |-> R,
                       Q |-> IF is_left THEN formula.second ELSE formula.first],
                 LAMBDA axiom_map :
            Once(add_line(prover,
                          AssumptionLineOf(instantiate(axiom.formula, axiom_map, {}),
                                           axiom, axiom_map)),
                 LAMBDA step_axiom :
            Once(add_proof(step_axiom, sub.proof.conclusion, sub.proof),
                 LAMBDA step1 :
            Once([x |-> x, y |-> x,
                  R |-> Formula_substitute(n_pred, [v \in {x} |-> Atom("_")], {}),
                  Q |-> Formula_substitute(sub.formula,
                                           [v \in {x} |-> Atom("_")], {})],
                 LAMBDA equiv_axiom_map :
            Once(add_line(step1,
                          AssumptionLineOf(
                              instantiate(equiv_axiom.formula, equiv_axiom_map, {}),
                              equiv_axiom, equiv_axiom_map)),
                 LAMBDA step_equiv_axiom :
                [formula |-> Quantified(Qt, x, sub.formula),
                 proof |-> qed(add_tautological_implication(
                               step_equiv_axiom,
                               equivalence_of(formula,
                                              Quantified(Qt, x, sub.formula)),
                               {number(step_axiom), number(step1),
                                number(step_equiv_axiom)}))])))))))

\* variant that keeps the quantifier when it is pulled out of a negation
_pull_out_quantifications_across_negation_unswapped(formula) ==
    __pull_out_quantifiers_across_all(formula, TRUE, FALSE, 0)

_pull_out_quantifications_across_negation(formula) ==
    __pull_out_quantifiers_across_all(formula, TRUE, TRUE, 0)

\* variant that keeps the quantifier when it is pulled out of the antecedent of
\* an implication
_pull_out_quantifications_from_left_unswapped(formula) ==
    __pull_out_quantifiers_across_all(
        formula, TRUE, FALSE,
        IF formula.root = "&" THEN 1 ELSE IF formula.root = "|" THEN 3 ELSE 5)

_pull_out_quantifications_from_left_across_binary_operator(formula) ==
    __pull_out_quantifiers_across_all(
        formula, TRUE, formula.root = "->",
        IF formula.root = "&" THEN 1 ELSE IF formula.root = "|" THEN 3 ELSE 5)

_pull_out_quantifications_from_right_across_binary_operator(formula) ==
    __pull_out_quantifiers_across_all(
        formula, FALSE, FALSE,
        IF formula.root = "&" THEN 2 ELSE IF formula.root = "|" THEN 4 ELSE 6)

\* The two loops of _pull_out_quantifications_across_binary_operator for the
\* quantifications at the root of left_pull, from the innermost one outwards:
\* stripped is _pred after the first loop and right the result of pulling out
\* from its right; right_pull and _pred are the values after the second loop
\* and instances the assumption lines of the instantiated axioms.
RECURSIVE requantified(_)
requantified(left_pull) ==
    IF is_quantifier(left_pull.root) THEN
        Once(requantified(left_pull.predicate), LAMBDA inner :
            IF inner.right.proof.raised THEN inner ELSE
        Once([x |-> left_pull.variable, y |-> left_pull.variable,
              R |-> Formula_substitute(inner.right_pull,
                        [v \in {left_pull.variable} |-> Atom("_")], {}),
              Q |-> Formula_substitute(inner._pred,
                        [v \in {left_pull.variable} |-> Atom("_")], {})],
             LAMBDA map :
            LET axiom == At(ADDITIONAL_QUANTIFICATION_AXIOMS,
                            IF left_pull.root = "A" THEN 14 ELSE 15)
            IN  [inner EXCEPT
                     !.right_pull = Quantified(left_pull.root, left_pull.variable, @),
                     !._pred = left_pull,
                     !.instances =
                         Append(@, AssumptionLineOf(
                                       instantiate(axiom.formula, map, {}),
                                       axiom, map))]))
    ELSE Once(_pull_out_quantifications_from_right_across_binary_operator(left_pull),
              LAMBDA right :
                  [stripped |-> left_pull, right |-> right,
                   right_pull |-> right.formula, _pred |-> left_pull,
                   instances |-> << >>])

_pull_out_quantifications_across_binary_operator(formula) ==
    LET prover == ALL_AXIOMS_Prover
        number(p) == Len(p.lines) - 1
        failed == [formula |-> NoFormula, proof |-> qed([prover EXCEPT !.raised = TRUE])]
    IN  IF \/ ~ has_uniquely_named_variables(formula)
           \/ ~ predicates_is_binary(formula.root)
        THEN failed
        ELSE
        Once(_pull_out_quantifications_from_left_across_binary_operator(formula),
             LAMBDA left :
            IF left.proof.raised THEN failed ELSE
        Once(requantified(left.formula), LAMBDA loops :
            IF loops.right.proof.raised THEN failed ELSE
        Once(add_proof(prover, equivalence_of(formula, left.formula), left.proof),
             LAMBDA left_step :
        Once(add_proof(left_step,
                       equivalence_of(loops.stripped, loops.right.formula),
                       loops.right.proof),
             LAMBDA right_step :
            LET \* Prover.add_instantiated_assumption for each of the instances
                RECURSIVE add_lines(_)
                add_lines(n) ==
                    IF n = 0 THEN right_step
                    ELSE Once(add_lines(n - 1),
                              LAMBDA added : add_line(added, loops.instances[n]))
            IN
        Once(add_lines(Len(loops.instances)), LAMBDA quantifying :
            [formula |-> loops.right_pull,
             proof |-> qed(add_tautological_implication(
                           quantifying, equivalence_of(formula, loops.right_pull),
                           { number(right_step) + n : n \in 1 .. Len(loops.instances) }
                               \cup { number(left_step), number(right_step) }))])))))

RECURSIVE _to_prenex_normal_form_from_uniquely_named_variables(_)
_to_prenex_normal_form_from_uniquely_named_variables(formula) ==
    LET prover == ALL_AXIOMS_Prover
        number(p) == Len(p.lines) - 1
        failed == [formula |-> NoFormula, proof |-> qed([prover EXCEPT !.raised = TRUE])]
    IN  IF ~ has_uniquely_named_variables(formula) THEN failed
        ELSE IF is_relation(formula.root) \/ is_equality(formula.root) THEN
            [formula |-> formula,
             proof |-> qed(add_line(prover, TautologyLine(
                                                equivalence_of(formula, formula))))]
        ELSE IF predicates_is_unary(formula.root) THEN
            Once(_to_prenex_normal_form_from_uniquely_named_variables(formula.first),
                 LAMBDA inner :
                IF inner.proof.raised THEN failed ELSE
            Once(Unary(inner.formula), LAMBDA n_formula :
            Once(_pull_out_quantifications_across_negation(n_formula), LAMBDA fp :
                IF fp.proof.raised THEN failed ELSE
            Once(add_proof(prover, equivalence_of(formula.first, inner.formula),
                           inner.proof),
                 LAMBDA step1 :
            Once(add_proof(step1, equivalence_of(n_formula, fp.formula), fp.proof),
                 LAMBDA step2 :
                [formula |-> fp.formula,
                 proof |-> qed(add_tautological_implication(
                               step2, equivalence_of(formula, fp.formula),
                               {number(step1), number(step2)}))])))))
        ELSE IF predicates_is_binary(formula.root) THEN
            Once(_to_prenex_normal_form_from_uniquely_named_variables(formula.first),
                 LAMBDA inner1 :
            Once(_to_prenex_normal_form_from_uniquely_named_variables(formula.second),
                 LAMBDA inner2 :
                IF inner1.proof.raised \/ inner2.proof.raised THEN failed ELSE
            Once(Binary(formula.root, inner1.formula, inner2.formula),
                 LAMBDA n_formula :
            Once(_pull_out_quantifications_across_binary_operator(n_formula),
                 LAMBDA fp :
                IF fp.proof.raised THEN failed ELSE
            Once(add_proof(prover, equivalence_of(formula.first, inner1.formula),
                           inner1.proof),
                 LAMBDA step1 :
            Once(add_proof(step1, equivalence_of(formula.second, inner2.formula),
                           inner2.proof),
                 LAMBDA step2 :
            Once(add_proof(step2, equivalence_of(n_formula, fp.formula), fp.proof),
                 LAMBDA step3 :
                [formula |-> fp.formula,
                 proof |-> qed(add_tautological_implication(
                               step3, equivalence_of(formula, fp.formula),
                               {number(step1), number(step2), number(step3)}))])))))))
        ELSE
            LET x == formula.variable
                _pred == formula.predicate
                axiom == At(ADDITIONAL_QUANTIFICATION_AXIOMS,
                            IF formula.root = "A" THEN 14 ELSE 15)
            IN
            Once(_to_prenex_normal_form_from_uniquely_named_variables(_pred),
                 LAMBDA n_pred :
                IF n_pred.proof.raised THEN failed ELSE
            Once([x |-> x, y |-> x,
                  R |-> Formula_substitute(_pred, [v \in {x} |-> Atom("_")], {}),
                  Q |-> Formula_substitute(n_pred.formula,
                                           [v \in {x} |-> Atom("_")], {})],
                 LAMBDA map :
            Once(add_line(prover,
                          AssumptionLineOf(instantiate(axiom.formula, map, {}),
                                           axiom, map)),
                 LAMBDA step1 :
            Once(add_proof(step1, equivalence_of(_pred, n_pred.formula),
                           n_pred.proof),
                 LAMBDA step2 :
                [formula |-> Quantified(formula.root, x, n_pred.formula),
                 proof |-> qed(add_tautological_implication(
                               step2,
                               equivalence_of(formula,
                                   Quantified(formula.root, x, n_pred.formula)),
                               {number(step1), number(step2)}))]))))

\* The call returns [formula, proof, generated], as
\* _uniquely_rename_quantified_variables does.
to_prenex_normal_form(formula, generated) ==
    LET prover == ALL_AXIOMS_Prover
        number(p) == Len(p.lines) - 1
        failed == [formula |-> NoFormula, proof |-> qed([prover EXCEPT !.raised = TRUE]),
                   generated |-> generated]
    IN  IF \E variable \in variable_names(formula) :
               variable \in {"z", "z1", "z2", "z3", "z4", "z5", "z6", "z7", "z8"}
        THEN failed
        ELSE
        Once(_uniquely_rename_quantified_variables(formula, generated), LAMBDA uni :
            IF uni.proof.raised THEN failed ELSE
        Once(_to_prenex_normal_form_from_uniquely_named_variables(uni.formula),
             LAMBDA pnf :
            IF pnf.proof.raised THEN failed ELSE
        Once(add_proof(prover, equivalence_of(formula, uni.formula), uni.proof),
             LAMBDA step1 :
        Once(add_proof(step1, equivalence_of(uni.formula, pnf.formula), pnf.proof),
             LAMBDA step2 :
            [formula |-> pnf.formula,
             proof |-> qed(add_tautological_implication(
                           step2, equivalence_of(formula, pnf.formula),
                           {number(step1), number(step2)})),
             generated |-> uni.generated]))))

(***************************************************************************)
(* SpecPrenex: to_prenex_normal_form is called on a formula with at most   *)
(* MaxOperators operators and quantifications, after the generator of      *)
(* fresh variable names has generated none or one name.                    *)
(***************************************************************************)
MaxOperators == 2

\* the formulas with exactly n operators and quantifications
RECURSIVE PrenexFormulas(_)
PrenexFormulas(n) ==
    IF n = 0 THEN { Relation("R", <<Atom("x"), Atom("y")>>) }
    ELSE { Unary(f) : f \in PrenexFormulas(n - 1) }
         \cup { Quantified(q, v, f) : q \in {"A", "E"}, v \in {"x", "y"},
                                      f \in PrenexFormulas(n - 1) }
         \cup UNION { { Binary(op, f, g) : op \in {"&", "|", "->"},
                                           f \in PrenexFormulas(k),
                                           g \in PrenexFormulas(n - 1 - k) } :
                      k \in 0 .. n - 1 }

InitPrenex ==
    /\ pc = "start"
    /\ \E n \in 0 .. MaxOperators : \E formula \in PrenexFormulas(n) :
           arg = [formula |-> formula]
    /\ ret = NoValue
    /\ heap \in {0, 1}

CallToPrenexNormalForm ==
    /\ pc = "start"
    /\ \E result \in { to_prenex_normal_form(arg.formula, heap) } :
           /\ ret' = [formula |-> result.formula, proof |-> result.proof]
           /\ heap' = result.generated
    /\ pc' = "to_prenex_normal_form"
    /\ UNCHANGED arg

NextPrenex == CallToPrenexNormalForm

SpecPrenex == InitPrenex /\ [][NextPrenex]_vars

\* C5: for a formula f without a variable name that starts with 'z',
\* to_prenex_normal_form(f) returns a formula g in prenex normal form and a
\* valid proof, from Prover.AXIOMS and ADDITIONAL_QUANTIFICATION_AXIOMS, whose
\* conclusion is equivalence_of(f, g).
C5_ToPrenexNormalForm ==
    pc = "to_prenex_normal_form" =>
        /\ predicates_is_valid(ret.proof)
        /\ is_in_prenex_normal_form(ret.formula)
        /\ ret.proof.assumptions =
               AXIOMS \cup Range(ADDITIONAL_QUANTIFICATION_AXIOMS)
        /\ ret.proof.conclusion = equivalence_of(arg.formula, ret.formula)

\* to_prenex_normal_form has returned for an implication with a universal
\* quantification on its left: the quantified variable is renamed and the
\* quantification is pulled out as an existential one
C5_Witness ==
    /\ pc = "to_prenex_normal_form"
    /\ arg.formula.root = "->"
    /\ arg.formula.first.root = "A"
    /\ ret.formula.root = "E"
    /\ ret.formula.variable \notin {"x", "y"}
    /\ ret.formula.predicate.root = "->"
    /\ is_quantifier_free(ret.formula.predicate)
    /\ Len(ret.proof.lines) > 0

(***************************************************************************)
(* predicates/deduction.py: proof_by_way_of_contradiction, and the         *)
(* assertion on the UG lines that it shares with remove_assumption.        *)
(***************************************************************************)
\* the loop of asserts over proof.lines, for the set that
\* assumption.free_variables() has returned
ug_lines_asserted(proof, free_variables) ==
    \A n \in 0 .. Len(proof.lines) - 1 :
        At(proof.lines, n).type = "UGLine" =>
            At(proof.lines, n).formula.variable \notin free_variables

\* the lines after "# Task 11.2"
predicates_proof_by_way_of_contradiction(proof, assumption) ==
    LET prover == [assumptions |-> proof.assumptions \ {Schema(assumption)},
                   lines |-> << >>, raised |-> FALSE]
    IN  Once(predicates_remove_assumption(proof, assumption),
             LAMBDA proof_contradiction :
        Once(add_proof(prover, proof_contradiction.conclusion, proof_contradiction),
             LAMBDA step1 :
            IF step1.raised THEN qed(step1)
            ELSE qed(add_tautological_implication(step1, Unary(assumption),
                                                  {Len(step1.lines) - 1}))))

(***************************************************************************)
(* SpecAssertion: formula objects that may share sub-formula objects have  *)
(* free_variables() called on them; then remove_assumption or              *)
(* proof_by_way_of_contradiction is called for one of the objects as the   *)
(* assumption, on the proof that has the assumption as its first line and  *)
(* a UG line over it as its second.                                        *)
(***************************************************************************)
CallWithUGLine ==
    \E o \in DOMAIN arg.objects, x \in {"x", "y"},
       function \in {"remove_assumption", "proof_by_way_of_contradiction"} :
        LET assumption == formula_of(arg.objects, o)
            proof == [assumptions |-> AXIOMS \cup {Schema(assumption)},
                      conclusion |-> Quantified("A", x, assumption),
                      lines |-> << AssumptionLineOf(assumption, Schema(assumption),
                                                    << >>),
                                   UGLine(Quantified("A", x, assumption), 0) >>,
                      raised |-> FALSE]
        IN  /\ pc \in {"start", "free_variables"}
            /\ \E h \in {Formula_free_variables(arg.objects, heap, o)} :
               \E returned \in {
                   IF ~ ( /\ predicates_is_valid(proof)
                          /\ Schema(assumption) \in proof.assumptions
                          /\ AXIOMS \subseteq proof.assumptions
                          /\ ug_lines_asserted(proof, h.sets[h.result]) )
                   THEN Exception("AssertionError")
                   ELSE IF function = "remove_assumption"
                   THEN predicates_remove_assumption(proof, assumption)
                   ELSE predicates_proof_by_way_of_contradiction(
                            proof, assumption) } :
                   /\ heap' = h
                   /\ ret' = [proof |-> proof, assumption |-> assumption,
                              returned |-> returned]
            /\ arg' = [arg EXCEPT !.self = o]
            /\ pc' = function

NextAssertion == CallFreeVariables \/ CallWithUGLine

SpecAssertion == InitMemo /\ [][NextAssertion]_vars

\* C12: when the proof has a UG line over a variable that is free in the
\* assumption to remove, remove_assumption and proof_by_way_of_contradiction
\* end with an assertion error and return no proof; when it has none, the
\* assertion does not fire
C12_UGAssertion ==
    pc \in {"remove_assumption", "proof_by_way_of_contradiction"} =>
        ( ret.returned = Exception("AssertionError")
            <=> ~ ug_lines_asserted(ret.proof,
                                    free_variable_names(ret.assumption)) )

(***************************************************************************)
(* SpecSubstituteVariables: Formula.substitute_variables called on a       *)
(* formula with a substitution map.                                        *)
(***************************************************************************)
MaxConnectives == 2

\* the formulas with n connectives over p, q, T and F, listed without
\* repetition
RECURSIVE FormulasOfSize(_)
FormulasOfSize(n) ==
    IF n = 0 THEN << PVar("p"), PVar("q"), PVar("T"), PVar("F") >>
    ELSE Once([k \in 0 .. n - 1 |-> FormulasOfSize(k)], LAMBDA smaller :
             LET binary(k) ==
                     [i \in 1 .. 3 * Len(smaller[k]) * Len(smaller[n - 1 - k]) |->
                         PBin(<<"&", "|", "->">>[((i - 1) % 3) + 1],
                              smaller[k][(((i - 1) \div 3) % Len(smaller[k])) + 1],
                              smaller[n - 1 - k][((i - 1) \div (3 * Len(smaller[k])))
                                                 + 1])]
                 RECURSIVE binaries(_)
                 binaries(k) == IF k < 0 THEN << >>
                                ELSE binaries(k - 1) \o binary(k)
             IN  [i \in 1 .. Len(smaller[n - 1]) |-> PNot(smaller[n - 1][i])]
                 \o binaries(n - 1))

RECURSIVE FormulasUpToSize(_)
FormulasUpToSize(n) ==
    IF n = 0 THEN FormulasOfSize(0)
    ELSE FormulasUpToSize(n - 1) \o FormulasOfSize(n)

SemanticsFormulas == FormulasUpToSize(MaxConnectives)

InitSemantics ==
    /\ pc = "start"
    /\ arg = NoValue
    /\ ret = NoValue
    /\ heap = NoValue

CallSubstituteVariables ==
    /\ pc = "start"
    /\ \E formula \in Range(SemanticsFormulas),
          keys_ \in SUBSET {"p", "q"} :
       \E substitution_map \in [keys_ -> { PVar("p"), PVar("r"), PVar("T"),
                                           PBin("&", PVar("q"), PVar("r")) }] :
           /\ arg' = [formula |-> formula, substitution_map |-> substitution_map]
           /\ ret' = substitute_variables(formula, substitution_map)
    /\ pc' = "substitute_variables"
    /\ UNCHANGED heap

NextSubstituteVariables == CallSubstituteVariables

SpecSubstituteVariables == InitSemantics /\ [][NextSubstituteVariables]_vars

\* C14: substitute_variables returns the formula in which every variable that
\* is a key of the map is replaced by its image, all at once, and every other
\* variable is left as it is
C14_SubstituteVariables ==
    LET RECURSIVE substituted(_, _)
        substituted(f, map) ==
            IF is_constant(root(f)) THEN f
            ELSE IF is_variable(root(f))
            THEN IF root(f) \in DOMAIN map THEN map[root(f)] ELSE f
            ELSE IF is_unary(root(f)) THEN PNot(substituted(first(f), map))
            ELSE PBin(root(f), substituted(first(f), map),
                      substituted(second(f), map))
    IN  pc = "substitute_variables" =>
            ret = substituted(arg.formula, arg.substitution_map)

(***************************************************************************)
(* SpecSemantics: all_models, synthesize and synthesize_cnf, each called   *)
(* once on one input; SpecTruthTable: the same for is_tautology,           *)
(* is_contradiction and is_satisfiable.                                    *)
(***************************************************************************)
MaxVariables == 2

\* the lists of at most n variables, repetitions included
RECURSIVE VariableLists(_)
VariableLists(n) ==
    IF n = 0 THEN { << >> }
    ELSE VariableLists(n - 1)
         \cup { Append(l, v) : l \in VariableLists(n - 1), v \in {"p", "q", "r"} }

RECURSIVE Power2(_)
Power2(n) == IF n = 0 THEN 1 ELSE 2 * Power2(n - 1)

distinct(variables_) ==
    \A i, j \in DOMAIN variables_ : variables_[i] = variables_[j] => i = j

CallAllModels ==
    /\ pc = "start"
    /\ \E variables_ \in VariableLists(MaxVariables) :
           /\ arg' = [variables |-> variables_]
           /\ ret' = all_models(variables_)
    /\ pc' = "all_models"
    /\ UNCHANGED heap

CallSynthesize ==
    /\ pc = "start"
    /\ \E variables_ \in VariableLists(MaxVariables) \ { << >> } :
       \E values \in [1 .. Power2(Len(variables_)) -> BOOLEAN] :
           /\ arg' = [variables |-> variables_, values |-> values]
           /\ ret' = synthesize(variables_, values)
    /\ pc' = "synthesize"
    /\ UNCHANGED heap

CallSynthesizeCnf ==
    /\ pc = "start"
    /\ \E variables_ \in VariableLists(MaxVariables) \ { << >> } :
       \E values \in [1 .. Power2(Len(variables_)) -> BOOLEAN] :
           /\ arg' = [variables |-> variables_, values |-> values]
           /\ ret' = synthesize_cnf(variables_, values)
    /\ pc' = "synthesize_cnf"
    /\ UNCHANGED heap

CallIsTautology ==
    /\ pc = "start"
    /\ \E i \in DOMAIN SemanticsFormulas :
           /\ arg' = [formula |-> SemanticsFormulas[i]]
           /\ ret' = is_tautology(SemanticsFormulas[i])
    /\ pc' = "is_tautology"
    /\ UNCHANGED heap

CallIsContradiction ==
    /\ pc = "start"
    /\ \E i \in DOMAIN SemanticsFormulas :
           /\ arg' = [formula |-> SemanticsFormulas[i]]
           /\ ret' = is_contradiction(SemanticsFormulas[i])
    /\ pc' = "is_contradiction"
    /\ UNCHANGED heap

CallIsSatisfiable ==
    /\ pc = "start"
    /\ \E i \in DOMAIN SemanticsFormulas :
           /\ arg' = [formula |-> SemanticsFormulas[i]]
           /\ ret' = is_satisfiable(SemanticsFormulas[i])
    /\ pc' = "is_satisfiable"
    /\ UNCHANGED heap

NextSemantics ==
    \/ CallAllModels
    \/ CallSynthesize
    \/ CallSynthesizeCnf

SpecSemantics == InitSemantics /\ [][NextSemantics]_vars

NextTruthTable ==
    \/ CallIsTautology
    \/ CallIsContradiction
    \/ CallIsSatisfiable

SpecTruthTable == InitSemantics /\ [][NextTruthTable]_vars

\* C15: for a list of n distinct variables all_models produces 2^n models,
\* every total assignment among them, each once, and a model comes before
\* another exactly when, at the first variable of the list where they differ,
\* it has False and the other has True
C15_AllModels ==
    pc = "all_models" /\ distinct(arg.variables) =>
        /\ Len(ret) = Power2(Len(arg.variables))
        /\ Range(ret) = [Range(arg.variables) -> BOOLEAN]
        /\ \A i, j \in DOMAIN ret :
               i < j =>
                   \E k \in DOMAIN arg.variables :
                       /\ \A l \in 1 .. k - 1 :
                              ret[i][arg.variables[l]] = ret[j][arg.variables[l]]
                       /\ ~ ret[i][arg.variables[k]]
                       /\ ret[j][arg.variables[k]]

C15_Witness ==
    /\ pc = "all_models"
    /\ arg.variables = <<"q", "p">>
    /\ ret[2] = [v \in {"p", "q"} |-> v = "p"]
    /\ ret[3] = [v \in {"p", "q"} |-> v = "q"]

\* the formula returned for the variables and values evaluates in the i-th
\* model of all_models(variables) to the i-th value
has_truth_table ==
    \A i \in DOMAIN arg.values :
        evaluate(ret, all_models(arg.variables)[i]) = arg.values[i]

\* C16: for a nonempty list of distinct variables and 2^n truth values, the
\* formula that synthesize or synthesize_cnf returns evaluates to the i-th
\* value in the i-th model of all_models(variables), the all-False and
\* all-True sequences included
C16_Synthesize ==
    pc \in {"synthesize", "synthesize_cnf"} /\ distinct(arg.variables) =>
        has_truth_table

C16_Witness ==
    /\ pc = "synthesize_cnf"
    /\ arg.variables = <<"q", "p">>
    /\ arg.values = [i \in 1 .. 4 |-> TRUE]
    /\ has_truth_table

\* C16 for every nonempty list of variables, lists that name a variable
\* twice included
C16_SynthesizeAnyList ==
    pc \in {"synthesize", "synthesize_cnf"} => has_truth_table

\* C17: is_tautology holds exactly when the formula is true in every model
\* over its variables, is_contradiction exactly when it is true in none, and
\* is_satisfiable is the negation of is_contradiction; a formula without
\* variables has the empty model only
C17_TruthTableChecks ==
    LET models == [variables(arg.formula) -> BOOLEAN]
        \* the orders in which the set of variables may be iterated
        orders == { l \in VariableLists(MaxVariables) :
                        distinct(l) /\ Range(l) = variables(arg.formula) }
    IN  /\ pc = "is_tautology" =>
               /\ ret = \A m \in models : evaluate(arg.formula, m)
               /\ \A l \in orders :
                      ret = reduce("and", truth_values(arg.formula, all_models(l)))
        /\ pc = "is_contradiction" =>
               /\ ret = ~ \E m \in models : evaluate(arg.formula, m)
               /\ \A l \in orders :
                      ret = ~ reduce("or", truth_values(arg.formula, all_models(l)))
        /\ pc = "is_satisfiable" =>
               /\ ret = ~ is_contradiction(arg.formula)
               /\ ret = \E m \in models : evaluate(arg.formula, m)
        /\ pc \in {"is_tautology", "is_contradiction", "is_satisfiable"}
           /\ variables(arg.formula) = {} =>
               /\ models = { << >> }
               /\ ret = IF pc = "is_contradiction"
                        THEN ~ evaluate(arg.formula, << >>)
                        ELSE evaluate(arg.formula, << >>)

C17_Witness ==
    /\ pc = "is_satisfiable"
    /\ arg.formula = PBin("&", PVar("p"), PNot(PVar("p")))
    /\ ret = FALSE

(***************************************************************************)
(* predicates/completeness.py: replace_constant                            *)
(***************************************************************************)
\* the line that replace_constant builds for the line l: the formula and the
\* values of the instantiation map are substituted (a value that is a string,
\* given for a variable template, is compared with the constant), the
\* assumption of the line and the cited line numbers are taken as they are
replace_constant_line(l, constant, variable) ==
    LET map == [c \in {constant} |-> Atom(variable)]
        f == Formula_substitute(l.formula, map, {})
    IN  IF l.type = "TautologyLine" THEN TautologyLine(f)
        ELSE IF l.type = "AssumptionLine" THEN
            AssumptionLineOf(
                f, l.assumption,
                [x \in DOMAIN l.instantiation_map |->
                    LET y == l.instantiation_map[x]
                    IN  IF predicates_is_variable(x)
                        THEN IF y # constant THEN y ELSE variable
                        ELSE IF predicates_is_constant(x)
                        THEN Term_substitute(y, map, {})
                        ELSE Formula_substitute(y, map, {})])
        ELSE IF l.type = "MPLine"
        THEN MPLine(f, l.antecedent_line_number, l.conditional_line_number)
        ELSE UGLine(f, l.predicate_line_number)

replace_constant(proof, constant, variable) ==
    IF ~ ( /\ predicates_is_valid(proof)
           /\ predicates_is_constant(constant)
           /\ predicates_is_variable(variable)
           /\ \A assumption \in proof.assumptions :
                  /\ constant \notin assumption.templates
                  /\ variable \notin variable_names(assumption.formula)
           /\ \A n \in DOMAIN proof.lines :
                  variable \notin variable_names(proof.lines[n].formula) )
    THEN [assumptions |-> {}, conclusion |-> NoFormula, lines |-> << >>,
          raised |-> TRUE]
    ELSE LET map == [c \in {constant} |-> Atom(variable)]
             lines == [n \in DOMAIN proof.lines |->
                          replace_constant_line(proof.lines[n], constant, variable)]
         IN  [assumptions |->
                  { [formula |-> Formula_substitute(a.formula, map, {}),
                     templates |-> a.templates] : a \in proof.assumptions },
              conclusion |-> Last(lines).formula, lines |-> lines,
              raised |-> FALSE]

(***************************************************************************)
(* SpecReplaceConstant: valid proofs from Prover.AXIOMS and two assumptions *)
(* without templates, some of which contain the constant a, are grown line  *)
(* by line; replace_constant is called on them.                             *)
(***************************************************************************)
InitReplaceConstant ==
    /\ pc = "build"
    /\ LET Ra == Relation("R", <<Atom("a")>>)
           Qx == Relation("Q", <<Atom("x")>>)
           AssumptionFormulas == { Ra, Qx,
                                  Quantified("A", "y", Binary("->", Qx, Ra)) }
       IN  \E assumption \in AssumptionFormulas, other \in AssumptionFormulas :
               arg = [proof |-> qed([assumptions |->
                                         AXIOMS \cup {Schema(assumption),
                                                      Schema(other)},
                                     lines |-> << >>, raised |-> FALSE]),
                      assumption |-> assumption,
                      constant |-> NoValue, variable |-> NoValue]
    /\ ret = NoValue
    /\ heap = NoValue

CallReplaceConstant ==
    /\ pc = "build"
    /\ Len(arg.proof.lines) > 0
    /\ \E constant \in {"a", "c"}, variable \in {"zz", "x"} :
       \E result \in { replace_constant(arg.proof, constant, variable) } :
           /\ arg' = [arg EXCEPT !.constant = constant, !.variable = variable]
           /\ ret' = result
    /\ pc' = "replace_constant"
    /\ UNCHANGED heap

NextReplaceConstant ==
    \/ AddAssumption \/ AddInstantiatedAssumption \/ AddTautology
    \/ AddMP \/ AddUG \/ CallReplaceConstant

SpecReplaceConstant == InitReplaceConstant /\ [][NextReplaceConstant]_vars

\* the lines of the returned proof are as many as the given ones, of the same
\* kinds, citing the same line numbers, with the constant replaced by the
\* variable in the formulas and in the values of the instantiation maps; the
\* assumptions are the given ones with the constant replaced, and the
\* conclusion is the formula of the last line
ReplacedInLinesAndAssumptions ==
    LET RECURSIVE replaced_term(_)
        replaced_term(t) ==
            IF t.root = arg.constant THEN Atom(arg.variable)
            ELSE Term(t.root, [i \in DOMAIN t.arguments |->
                                  replaced_term(t.arguments[i])])
        RECURSIVE replaced(_)
        replaced(f) ==
            IF is_equality(f.root) \/ is_relation(f.root)
            THEN Relation(f.root, [i \in DOMAIN f.arguments |->
                                      replaced_term(f.arguments[i])])
            ELSE IF predicates_is_unary(f.root) THEN Unary(replaced(f.first))
            ELSE IF predicates_is_binary(f.root)
            THEN Binary(f.root, replaced(f.first), replaced(f.second))
            ELSE Quantified(f.root, f.variable, replaced(f.predicate))
        old == arg.proof.lines
        new == ret.lines
    IN  /\ Len(new) = Len(old)
        /\ \A n \in DOMAIN old :
               /\ new[n].type = old[n].type
               /\ new[n].formula = replaced(old[n].formula)
               /\ arg.constant \notin Formula_constants(new[n].formula)
               /\ old[n].type = "MPLine" =>
                      /\ new[n].antecedent_line_number = old[n].antecedent_line_number
                      /\ new[n].conditional_line_number =
                             old[n].conditional_line_number
               /\ old[n].type = "UGLine" =>
                      new[n].predicate_line_number = old[n].predicate_line_number
               /\ old[n].type = "AssumptionLine" =>
                      /\ DOMAIN new[n].instantiation_map =
                             DOMAIN old[n].instantiation_map
                      /\ \A x \in DOMAIN old[n].instantiation_map :
                             IF predicates_is_variable(x)
                             THEN new[n].instantiation_map[x] =
                                      old[n].instantiation_map[x]
                             ELSE new[n].instantiation_map[x] =
                                      replaced(old[n].instantiation_map[x])
        /\ ret.assumptions = { [formula |-> replaced(a.formula),
                                templates |-> a.templates] :
                               a \in arg.proof.assumptions }
        /\ \A a \in ret.assumptions : arg.constant \notin Formula_constants(a.formula)
        /\ ret.conclusion = Last(new).formula
        /\ ret.conclusion = replaced(arg.proof.conclusion)

\* C18: for a valid proof, a constant that is not a template of an assumption
\* and a variable that does not occur in the proof, replace_constant returns a
\* proof with the same number of lines, each of the same kind and citing the
\* same line numbers, in which the constant is replaced by the variable in
\* every line formula, instantiation-map value and assumption formula, the
\* assumptions of the assumption lines included, and whose conclusion is the
\* substituted formula of the last line
C18_ReplaceConstant ==
    pc = "replace_constant" /\ ~ ret.raised =>
        /\ ReplacedInLinesAndAssumptions
        /\ \A n \in DOMAIN ret.lines :
               ret.lines[n].type = "AssumptionLine" =>
                   arg.constant \notin Formula_constants(ret.lines[n].assumption.formula)

(***************************************************************************)
(* predicates/completeness.py: existential_closure_step.  The fresh        *)
(* constant name generator is a counter, generated, of the names it has    *)
(* produced so far; its n-th name is fresh_constant_name(n).               *)
(***************************************************************************)
fresh_constant_name(n) == <<"e1", "e2", "e3", "e4", "e5", "e6", "e7">>[n]

\* whether some constant of the universe instantiates the predicate of the
\* sentence s to a sentence of the given ones (the loop that breaks)
has_witness(sentences, s) ==
    \E c \in get_constants(sentences) : instantiated(s, c) \in sentences

\* the loop over the sentences, which visits those that get a witness in the
\* given order; the result is [sentences, generated]
RECURSIVE existential_closure_loop(_, _, _, _)
existential_closure_loop(sentences, generated, order, k) ==
    IF k = 0 THEN [sentences |-> sentences, generated |-> generated]
    ELSE Once(existential_closure_loop(sentences, generated, order, k - 1),
              LAMBDA before :
                 [sentences |-> before.sentences \cup
                      { instantiated(order[k],
                                     fresh_constant_name(before.generated + 1)) },
                  generated |-> before.generated + 1])

\* existential_closure_step that takes one name from the generator for all
\* the witnesses it adds
existential_closure_step_one_name(sentences, generated, order) ==
    [sentences |-> sentences \cup
         { instantiated(order[k], fresh_constant_name(generated + 1)) :
               k \in DOMAIN order },
     generated |-> generated + 1]

existential_closure_step(sentences, generated, order) ==
    IF ~ \A sentence \in sentences : /\ is_in_prenex_normal_form(sentence)
                                     /\ free_variable_names(sentence) = {}
    THEN [sentences |-> NoValue, generated |-> generated]
    ELSE existential_closure_loop(sentences, generated, order, Len(order))

(***************************************************************************)
(* SpecClosure: existential_closure_step is called on a set of sentences   *)
(* and then on what it returned.                                           *)
(***************************************************************************)
MaxGenerated == 4

ClosureSentences ==
    LET R(t) == Relation("R", <<Atom(t)>>)
        Q(t) == Relation("Q", <<Atom(t)>>)
    IN  { R("a"), R("e1"), _not(Q("a")),
          Quantified("E", "x", R("x")), Quantified("E", "y", R("y")),
          Quantified("E", "x", _not(Q("x"))),
          Quantified("A", "x", R("x")),
          Quantified("E", "y", Binary("->", R("a"), Q("y"))),
          Quantified("E", "x", Quantified("E", "y", Binary("->", R("x"), Q("y")))) }

\* the orders in which the elements of a set may be visited
Orders(set) ==
    { order \in [1 .. Cardinality(set) -> set] :
          \A i, j \in 1 .. Cardinality(set) : order[i] = order[j] => i = j }

InitClosure ==
    /\ pc = "start"
    /\ \E sentences \in SUBSET ClosureSentences :
           /\ Cardinality(sentences) <= MaxSentences
           /\ arg = [sentences |-> sentences, generated |-> NoValue]
    /\ ret = NoValue
    /\ heap \in {0, 1}

CallExistentialClosureStep ==
    LET sentences == IF pc = "start" THEN arg.sentences ELSE ret
    IN  \E order \in Orders({ s \in sentences :
                                 s.root = "E" /\ ~ has_witness(sentences, s) }) :
            /\ heap + Len(order) <= MaxGenerated
            /\ \E result \in { existential_closure_step(sentences, heap, order) } :
                   /\ ret' = result.sentences
                   /\ heap' = result.generated
            /\ arg' = [sentences |-> sentences, generated |-> heap]
            /\ pc' = "existential_closure_step"

NextClosure == CallExistentialClosureStep

SpecClosure == InitClosure /\ [][NextClosure]_vars

\* the returned set is the given one with one witness for each existentially
\* quantified sentence that has none in it, each with a constant of its own
\* that the generator produced in this call and that occurs in no given
\* sentence; nothing else is added
WitnessesAdded ==
    LET missing == { s \in arg.sentences :
                         s.root = "E" /\ ~ has_witness(arg.sentences, s) }
        names == { fresh_constant_name(n) : n \in arg.generated + 1 .. heap }
    IN  /\ arg.sentences \subseteq ret
        /\ \E constant \in [missing -> names] :
               /\ \A s, t \in missing : constant[s] = constant[t] => s = t
               /\ \A s \in missing :
                      constant[s] \notin get_constants(arg.sentences)
               /\ ret = arg.sentences \cup
                            { instantiated(s, constant[s]) : s \in missing }

Model(universe, constant_meanings, relation_meanings, function_meanings) ==
    [universe |-> universe, constant_meanings |-> constant_meanings,
     relation_meanings |-> relation_meanings,
     function_meanings |-> function_meanings]

\* the elements that set.update(string) adds: the characters of the string
characters(string) == { <<string[i]>> : i \in DOMAIN string }

\* set.pop(): the element of the set that comes first in the order in which
\* the set happens to be iterated
set_pop(set, iteration) ==
    CHOOSE x \in set : \A y \in set :
        (CHOOSE i \in DOMAIN iteration : iteration[i] = x)
            <= (CHOOSE i \in DOMAIN iteration : iteration[i] = y)

\* dict.get(i, i)
mapping_get(mapping, i) == IF i \in DOMAIN mapping THEN mapping[i] ELSE i

\* the while loop that collects equivalence_classes
RECURSIVE equivalence_classes_loop(_, _, _)
equivalence_classes_loop(uni, same_relation, iteration) ==
    IF uni = {} THEN << >>
    ELSE LET x == set_pop(uni, iteration)
             same == { y \in uni \ {x} : <<x, y>> \in same_relation }
             cls == {x} \cup UNION { characters(y) : y \in same }
         IN  <<cls>> \o equivalence_classes_loop(uni \ ({x} \cup same),
                                                 same_relation, iteration)

\* the loop over equivalence_classes, up to the k-th class
RECURSIVE representatives_loop(_, _, _)
representatives_loop(equivalence_classes, k, iteration) ==
    IF k = 0 THEN [shrink_universe |-> {}, equivalence_mapping |-> << >>]
    ELSE Once(representatives_loop(equivalence_classes, k - 1, iteration),
              LAMBDA before :
                 LET representative == set_pop(equivalence_classes[k], iteration)
                     cls == equivalence_classes[k] \ {representative}
                 IN  [shrink_universe |->
                          before.shrink_universe \cup characters(representative),
                      equivalence_mapping |->
                          [x \in cls |-> representative]
                              @@ before.equivalence_mapping])

make_equality_as_SAME_in_model(model, uni_iteration, cls_iteration) ==
    IF ~ /\ "SAME" \in DOMAIN model.relation_meanings
         /\ \A args \in model.relation_meanings["SAME"] : Len(args) = 2
    THEN Exception("AssertionError")
    ELSE IF DOMAIN model.function_meanings # {}
    THEN Exception("AssertionError")
    ELSE LET same_relation == model.relation_meanings["SAME"]
             new_relations == DOMAIN model.relation_meanings \ {"SAME"}
             equivalence_classes ==
                 equivalence_classes_loop(model.universe, same_relation,
                                          uni_iteration)
             loop == representatives_loop(equivalence_classes,
                                          Len(equivalence_classes), cls_iteration)
             equivalence_mapping == loop.equivalence_mapping
             new_constants ==
                 [k \in DOMAIN model.constant_meanings |->
                     IF model.constant_meanings[k] \in DOMAIN equivalence_mapping
                     THEN equivalence_mapping[model.constant_meanings[k]]
                     ELSE model.constant_meanings[k]]
             copy_new_relations ==
                 [name \in new_relations |->
                     { [n \in DOMAIN args |->
                           mapping_get(equivalence_mapping, args[n])] :
                       args \in model.relation_meanings[name] }]
         IN  Model(loop.shrink_universe, new_constants, copy_new_relations, << >>)

(***************************************************************************)
(* SpecSAME: make_equality_as_SAME_in_model is called on a model without   *)
(* function meanings whose SAME is an equivalence relation that the        *)
(* relation R respects.                                                    *)
(***************************************************************************)
MaxUniverse == 3

ElementNames == { <<"a">>, <<"b">>, <<"c">>, <<"a", "b">> }

is_equivalence(relation, universe) ==
    /\ \A x \in universe : <<x, x>> \in relation
    /\ \A x, y \in universe : <<x, y>> \in relation => <<y, x>> \in relation
    /\ \A x, y, z \in universe :
           <<x, y>> \in relation /\ <<y, z>> \in relation => <<x, z>> \in relation

InitSAME ==
    /\ pc = "start"
    /\ \E universe \in SUBSET ElementNames :
           /\ universe # {}
           /\ Cardinality(universe) <= MaxUniverse
           /\ \E same_relation \in SUBSET (universe \X universe) :
                  /\ is_equivalence(same_relation, universe)
                  /\ \E meaning \in universe, R \in SUBSET universe :
                         /\ \A x, y \in universe :
                                <<x, y>> \in same_relation /\ x \in R => y \in R
                         /\ arg = [model |->
                                Model(universe, [k \in {"c"} |-> meaning],
                                      [name \in {"SAME", "R"} |->
                                          IF name = "SAME" THEN same_relation
                                          ELSE { <<x>> : x \in R }],
                                      << >>)]
    /\ ret = NoValue
    /\ heap = NoValue

CallMakeEqualityAsSAMEInModel ==
    /\ pc = "start"
    /\ \E uni_iteration \in Orders(arg.model.universe),
          cls_iteration \in Orders(ElementNames) :
           \E result \in { make_equality_as_SAME_in_model(arg.model, uni_iteration,
                                                         cls_iteration) } :
               ret' = result
    /\ pc' = "make_equality_as_SAME_in_model"
    /\ UNCHANGED <<arg, heap>>

NextSAME == CallMakeEqualityAsSAMEInModel

SpecSAME == InitSAME /\ [][NextSAME]_vars

\* the returned model has one element of each equivalence class of SAME of
\* the given model and nothing else, and the meaning of c and the elements
\* of R are the elements of their classes that it has
OneOfEachClass ==
    LET model == arg.model
        same_relation == model.relation_meanings["SAME"]
        representative(x) ==
            CHOOSE y \in ret.universe : <<x, y>> \in same_relation
    IN  /\ ret.universe \subseteq model.universe
        /\ \A x \in model.universe :
               Cardinality({ y \in ret.universe : <<x, y>> \in same_relation }) = 1
        /\ ret.constant_meanings =
               [k \in DOMAIN model.constant_meanings |->
                   representative(model.constant_meanings[k])]
        /\ ret.relation_meanings["R"] =
               { [n \in DOMAIN args |-> representative(args[n])] :
                 args \in model.relation_meanings["R"] }

\* C20: for every model without function meanings whose SAME is reflexive,
\* symmetric, transitive and respected by the other relations,
\* make_equality_as_SAME_in_model returns a model whose universe has exactly
\* one element of each equivalence class of SAME and nothing else, with every
\* constant meaning and every relation tuple argument rewritten to the
\* representative of its class, whatever the names of the universe elements
C20_EqualityAsSAME ==
    pc = "make_equality_as_SAME_in_model" => OneOfEachClass

\* the same for the models whose universe elements have one-character names
OneCharacterNames ==
    /\ pc = "make_equality_as_SAME_in_model"
    /\ \A x \in arg.model.universe : Len(x) = 1
    => OneOfEachClass

(***************************************************************************)
(* predicates/functions.py: replace_functions_with_relations_in_model and  *)
(* replace_relations_with_functions_in_model.  A function meaning is a     *)
(* function from argument tuples to elements, a relation meaning a set of  *)
(* tuples.                                                                 *)
(***************************************************************************)
None == [None |-> TRUE]

is_None(value) == "None" \in DOMAIN value

function_name_to_relation_name(function) ==
    CASE function = "f" -> "F" [] function = "g" -> "G" [] function = "h" -> "H"

RECURSIVE power(_, _)
power(base, exponent) ==
    IF exponent = 0 THEN 1 ELSE base * power(base, exponent - 1)

\* the tuples (y, *key) of a function meaning
relation_set_of(function) == { <<function[key]>> \o key : key \in DOMAIN function }

replace_functions_with_relations_in_model(model) ==
    IF \E function \in DOMAIN model.function_meanings :
           function_name_to_relation_name(function)
               \in DOMAIN model.relation_meanings
    THEN Exception("AssertionError")
    ELSE LET relations == { function_name_to_relation_name(f_name) :
                                f_name \in DOMAIN model.function_meanings }
             new_relation_meanings ==
                 [name \in DOMAIN model.relation_meanings \cup relations |->
                     IF name \in relations
                     THEN relation_set_of(model.function_meanings[
                              CHOOSE f_name \in DOMAIN model.function_meanings :
                                  function_name_to_relation_name(f_name) = name])
                     ELSE model.relation_meanings[name]]
         IN  Model(model.universe, model.constant_meanings,
                   new_relation_meanings, << >>)

\* the inner loop for one relation: the function_map of its tuples
function_map_of(relation_meaning) ==
    [key \in { Tail(relation) : relation \in relation_meaning } |->
        (CHOOSE relation \in relation_meaning : Tail(relation) = key)[1]]

\* returns_None without the comparison of the size of the function_map with
\* the number of argument tuples
returns_None_for_repeated_input(universe, relation_meaning) ==
    \E s, t \in relation_meaning : s # t /\ Tail(s) = Tail(t)

\* whether the loop body for one relation ends in one of its two return None
returns_None(universe, relation_meaning) ==
    \/ \E s, t \in relation_meaning : s # t /\ Tail(s) = Tail(t)
    \/ LET _input == IF relation_meaning = {} THEN << >>
                     ELSE Tail(CHOOSE relation \in relation_meaning : TRUE)
       IN  Cardinality(DOMAIN function_map_of(relation_meaning))
               # power(Cardinality(universe), Len(_input))

replace_relations_with_functions_in_model(model, original_functions) ==
    IF \E function \in original_functions :
           \/ ~ is_function(function)
           \/ function \in DOMAIN model.function_meanings
           \/ function_name_to_relation_name(function)
                  \notin DOMAIN model.relation_meanings
    THEN Exception("AssertionError")
    ELSE IF \E f \in original_functions :
                returns_None(model.universe,
                    model.relation_meanings[function_name_to_relation_name(f)])
    THEN None
    ELSE LET functions_map ==
                 [f \in original_functions |->
                     function_map_of(
                         model.relation_meanings[function_name_to_relation_name(f)])]
             relation_meanings ==
                 [name \in DOMAIN model.relation_meanings
                           \ { function_name_to_relation_name(f) :
                                   f \in original_functions } |->
                     model.relation_meanings[name]]
         IN  Model(model.universe, model.constant_meanings,
                   relation_meanings, functions_map)

(***************************************************************************)
(* SpecFunctions: a model with function meanings is converted and          *)
(* converted back; a model without function meanings is converted to one   *)
(* with the functions f, or f and h.                                       *)
(***************************************************************************)
MaxElements == 2

\* the functions of the given arity over the universe
FunctionMeanings(universe, arity) ==
    [ { key \in [1 .. arity -> universe] : TRUE } -> universe ]

InitFunctions ==
    /\ pc = "start"
    /\ \E n \in 1 .. MaxElements :
         LET universe == 1 .. n
         IN  \E meaning \in universe, R \in SUBSET universe :
               LET relation_meanings == [name \in {"R"} |-> { <<x>> : x \in R }]
                   constant_meanings == [k \in {"c"} |-> meaning]
               IN  \/ \E f, h \in FunctionMeanings(universe, 1) :
                          arg = [model |-> Model(universe, constant_meanings,
                                    relation_meanings,
                                    [name \in {"f", "h"} |->
                                        IF name = "f" THEN f ELSE h])]
                   \/ \E g \in FunctionMeanings(universe, 2) :
                          /\ R = {} /\ meaning = 1
                          /\ arg = [model |-> Model(universe, constant_meanings,
                                        relation_meanings, [name \in {"g"} |-> g])]
                   \/ \E F \in SUBSET (universe \X universe),
                         H \in { {}, { <<x, x>> : x \in universe } } :
                          /\ R = {}
                          /\ arg = [model |-> Model(universe, constant_meanings,
                                        [name \in {"R", "F", "H"} |->
                                            CASE name = "R" -> relation_meanings["R"]
                                              [] name = "F" -> F
                                              [] name = "H" -> H],
                                        << >>)]
    /\ ret = NoValue
    /\ heap = NoValue

CallReplaceFunctionsWithRelations ==
    /\ pc = "start"
    /\ DOMAIN arg.model.function_meanings # {}
    /\ \E result \in { replace_functions_with_relations_in_model(arg.model) } :
           ret' = result
    /\ pc' = "replace_functions_with_relations_in_model"
    /\ UNCHANGED <<arg, heap>>

\* the call on the model that replace_functions_with_relations_in_model
\* returned, with the names of the functions of the model given to it
CallReplaceBack ==
    /\ pc = "replace_functions_with_relations_in_model"
    /\ \E result \in { replace_relations_with_functions_in_model(ret,
                           DOMAIN arg.model.function_meanings) } :
           ret' = result
    /\ pc' = "replaced_back"
    /\ UNCHANGED <<arg, heap>>

CallReplaceRelationsWithFunctions ==
    /\ pc = "start"
    /\ DOMAIN arg.model.function_meanings = {}
    /\ \E original_functions \in { {"f"}, {"h"}, {"f", "h"} } :
           /\ \E result \in { replace_relations_with_functions_in_model(
                                  arg.model, original_functions) } :
                  ret' = result
           /\ heap' = original_functions
    /\ pc' = "replace_relations_with_functions_in_model"
    /\ UNCHANGED arg

NextFunctions ==
    \/ CallReplaceFunctionsWithRelations
    \/ CallReplaceBack
    \/ CallReplaceRelationsWithFunctions

SpecFunctions == InitFunctions /\ [][NextFunctions]_vars

\* whether the relation is the graph of a total function over the universe:
\* every tuple of arguments is in exactly one of its tuples
is_graph_of_total_function(universe, relation_meaning) ==
    \E arity \in 0 .. 2 :
        /\ \A relation \in relation_meaning : Len(relation) = arity + 1
        /\ \A key \in [1 .. arity -> universe] :
               Cardinality({ relation \in relation_meaning :
                                 Tail(relation) = key }) = 1

\* C21: converting the functions of a model to relations and back with the
\* names of its functions gives a model equal to it; and
\* replace_relations_with_functions_in_model returns None exactly when some
\* relation to convert is not the graph of a total function over the universe
C21_FunctionsRoundTrip ==
    /\ pc = "replaced_back" => ret = arg.model
    /\ pc = "replace_relations_with_functions_in_model" =>
           (is_None(ret) <=>
               \E f \in heap :
                   ~ is_graph_of_total_function(arg.model.universe,
                         arg.model.relation_meanings[
                             function_name_to_relation_name(f)]))

C21_Witness ==
    /\ pc = "replaced_back"
    /\ Cardinality(arg.model.universe) = 2
    /\ DOMAIN arg.model.function_meanings = {"g"}
    /\ arg.model.function_meanings["g"][<<1, 2>>] = 2
    /\ arg.model.function_meanings["g"][<<2, 1>>] = 1
    /\ ret = arg.model

(***************************************************************************)
(* predicates/syntax.py: Formula.propositional_skeleton and                *)
(* Formula.from_propositional_skeleton.  The fresh variable name generator *)
(* is the number, generated, of the names it has produced so far; its n-th *)
(* name is fresh_variable_name(n).                                         *)
(***************************************************************************)
fresh_variable_name(n) ==
    <<"z1", "z2", "z3", "z4", "z5", "z6", "z7", "z8", "z9", "z10", "z11", "z12">>[n]

\* __skeleton_helper that takes a new name for every sub-formula, without
\* looking it up in var_map
RECURSIVE __skeleton_helper_without_lookup(_, _, _)
__skeleton_helper_without_lookup(self, var_map, generated) ==
    IF is_equality(self.root) \/ is_relation(self.root) \/ is_quantifier(self.root)
    THEN [skeleton |-> PVar(fresh_variable_name(generated + 1)),
          var_map |-> [f \in DOMAIN var_map \cup {self} |->
                          IF f = self THEN fresh_variable_name(generated + 1)
                          ELSE var_map[f]],
          generated |-> generated + 1]
    ELSE IF predicates_is_unary(self.root) THEN
        Once(__skeleton_helper_without_lookup(self.first, var_map, generated),
             LAMBDA first_ :
                [first_ EXCEPT !.skeleton = PNot(first_.skeleton)])
    ELSE
        Once(__skeleton_helper_without_lookup(self.first, var_map, generated),
             LAMBDA first_ :
        Once(__skeleton_helper_without_lookup(self.second, first_.var_map,
                                              first_.generated),
             LAMBDA second_ :
                [second_ EXCEPT !.skeleton =
                    PBin(self.root, first_.skeleton, second_.skeleton)]))

\* the call returns [skeleton, var_map, generated]: the skeleton, var_map as
\* the call leaves it, and the generator as the call leaves it
RECURSIVE __skeleton_helper(_, _, _)
__skeleton_helper(self, var_map, generated) ==
    IF is_equality(self.root) \/ is_relation(self.root) \/ is_quantifier(self.root)
    THEN IF self \in DOMAIN var_map
         THEN [skeleton |-> PVar(var_map[self]), var_map |-> var_map,
               generated |-> generated]
         ELSE [skeleton |-> PVar(fresh_variable_name(generated + 1)),
               var_map |-> [f \in DOMAIN var_map \cup {self} |->
                               IF f = self THEN fresh_variable_name(generated + 1)
                               ELSE var_map[f]],
               generated |-> generated + 1]
    ELSE IF predicates_is_unary(self.root) THEN
        Once(__skeleton_helper(self.first, var_map, generated), LAMBDA first_ :
            [first_ EXCEPT !.skeleton = PNot(first_.skeleton)])
    ELSE
        Once(__skeleton_helper(self.first, var_map, generated), LAMBDA first_ :
        Once(__skeleton_helper(self.second, first_.var_map, first_.generated),
             LAMBDA second_ :
                [second_ EXCEPT !.skeleton =
                    PBin(self.root, first_.skeleton, second_.skeleton)]))

\* the call returns [skeleton, map, generated]
propositional_skeleton(self, generated) ==
    Once(__skeleton_helper(self, << >>, generated), LAMBDA helper :
        [skeleton |-> helper.skeleton,
         map |-> [key \in { helper.var_map[val] : val \in DOMAIN helper.var_map } |->
                     CHOOSE val \in DOMAIN helper.var_map :
                         helper.var_map[val] = key],
         generated |-> helper.generated])

RECURSIVE from_propositional_skeleton(_, _)
from_propositional_skeleton(skeleton, substitution_map) ==
    IF \/ \E operator \in operators(skeleton) :
              ~ (is_unary(operator) \/ is_binary(operator))
       \/ \E variable \in variables(skeleton) :
              variable \notin DOMAIN substitution_map
    THEN Exception("AssertionError")
    ELSE IF is_variable(root(skeleton)) THEN substitution_map[root(skeleton)]
    ELSE IF is_unary(root(skeleton))
    THEN Unary(from_propositional_skeleton(first(skeleton), substitution_map))
    ELSE Binary(root(skeleton),
                from_propositional_skeleton(first(skeleton), substitution_map),
                from_propositional_skeleton(second(skeleton), substitution_map))

(***************************************************************************)
(* SpecSkeleton: propositional_skeleton is called twice on a formula, and  *)
(* from_propositional_skeleton on what a call returned.                    *)
(***************************************************************************)
MaxSkeleton == 2

\* the formulas with exactly n operators above their relations, equalities
\* and quantifications
RECURSIVE SkeletonFormulas(_)
SkeletonFormulas(n) ==
    IF n = 0
    THEN { Relation("Q", <<Atom("y")>>), Equality(Atom("x"), Atom("c")),
           Quantified("A", "x", Binary("&", Equality(Atom("x"), Atom("c")),
                                       Relation("Q", <<Atom("y")>>))) }
    ELSE { Unary(f) : f \in SkeletonFormulas(n - 1) }
         \cup UNION { { Binary(op, f, g) : op \in {"&", "|", "->"},
                                           f \in SkeletonFormulas(k),
                                           g \in SkeletonFormulas(n - 1 - k) } :
                      k \in 0 .. n - 1 }

InitSkeleton ==
    /\ pc = "start"
    /\ \E n \in 0 .. MaxSkeleton : \E formula \in SkeletonFormulas(n) :
           arg = [formula |-> formula, generated |-> NoValue, earlier |-> {}]
    /\ ret = NoValue
    /\ heap \in {0, 1}

CallPropositionalSkeleton ==
    /\ pc \in {"start", "propositional_skeleton"}
    /\ \E result \in { propositional_skeleton(arg.formula, heap) } :
           /\ ret' = [skeleton |-> result.skeleton, map |-> result.map]
           /\ heap' = result.generated
    /\ arg' = [formula |-> arg.formula, generated |-> heap,
               earlier |-> IF pc = "start" THEN {} ELSE DOMAIN ret.map]
    /\ pc' = IF pc = "start" THEN "propositional_skeleton"
             ELSE "propositional_skeleton_again"

CallFromPropositionalSkeleton ==
    /\ pc \in {"propositional_skeleton", "propositional_skeleton_again"}
    /\ \E result \in { from_propositional_skeleton(ret.skeleton, ret.map) } :
           ret' = [formula |-> result]
    /\ pc' = "from_propositional_skeleton"
    /\ UNCHANGED <<arg, heap>>

NextSkeleton == CallPropositionalSkeleton \/ CallFromPropositionalSkeleton

SpecSkeleton == InitSkeleton /\ [][NextSkeleton]_vars

\* the outermost sub-formulas that have a relation, an equality or a
\* quantifier at their root
RECURSIVE outermost(_)
outermost(formula) ==
    IF predicates_is_unary(formula.root) THEN outermost(formula.first)
    ELSE IF predicates_is_binary(formula.root)
    THEN outermost(formula.first) \cup outermost(formula.second)
    ELSE {formula}

\* the formula with each outermost sub-formula replaced by the atomic
\* proposition that the map has for it
RECURSIVE skeleton_by(_, _)
skeleton_by(formula, map) ==
    IF predicates_is_unary(formula.root) THEN PNot(skeleton_by(formula.first, map))
    ELSE IF predicates_is_binary(formula.root)
    THEN PBin(formula.root, skeleton_by(formula.first, map),
              skeleton_by(formula.second, map))
    ELSE PVar(CHOOSE key \in DOMAIN map : map[key] = formula)

\* C22: propositional_skeleton() returns (s, map) where equal outermost
\* relation, equality and quantifier sub-formulas of f are replaced by the
\* same atomic proposition and different ones by different atomic
\* propositions, from_propositional_skeleton(s, map) is f, and the names of
\* two calls in sequence are disjoint, each call taking the next names of
\* the generator (z1..z3, then z4..z6)
C22_PropositionalSkeleton ==
    /\ pc \in {"propositional_skeleton", "propositional_skeleton_again"} =>
           /\ { ret.map[key] : key \in DOMAIN ret.map } = outermost(arg.formula)
           /\ Cardinality(DOMAIN ret.map) = Cardinality(outermost(arg.formula))
           /\ ret.skeleton = skeleton_by(arg.formula, ret.map)
           /\ from_propositional_skeleton(ret.skeleton, ret.map) = arg.formula
           /\ DOMAIN ret.map =
                  { fresh_variable_name(n) :
                        n \in arg.generated + 1 ..
                              arg.generated + Cardinality(outermost(arg.formula)) }
           /\ DOMAIN ret.map \cap arg.earlier = {}
    /\ pc = "from_propositional_skeleton" => ret.formula = arg.formula

\* the second call of the docstring's kind: a formula with three different
\* outermost sub-formulas, one of them twice, gets z4, z5, z6 after z1, z2, z3
C22_Witness ==
    /\ pc = "propositional_skeleton_again"
    /\ arg.formula = Binary("&",
           Quantified("A", "x", Binary("&", Equality(Atom("x"), Atom("c")),
                                       Relation("Q", <<Atom("y")>>))),
           Binary("->", Equality(Atom("x"), Atom("c")),
                  Equality(Atom("x"), Atom("c"))))
    /\ arg.earlier = {"z1", "z2"}
    /\ ret.skeleton = PBin("&", PVar("z3"), PBin("->", PVar("z4"), PVar("z4")))
    /\ DOMAIN ret.map = {"z3", "z4"}

(***************************************************************************)
(* propositions/reductions.py.  A graph is [n_vertices, edges], an edge a  *)
(* pair of vertices; a coloring is a function from vertices to colors.     *)
(***************************************************************************)
\* v + str(vertex) for v among 'x', 'y', 'z'
vertex_variable(v, vertex) ==
    CASE v = "x" -> <<"x1", "x2", "x3", "x4", "x5">>[vertex]
      [] v = "y" -> <<"y1", "y2", "y3", "y4", "y5">>[vertex]
      [] v = "z" -> <<"z1", "z2", "z3", "z4", "z5">>[vertex]

asserts_of_graph(graph) ==
    \A edge \in graph.edges :
        /\ Len(edge) = 2
        /\ \A i \in DOMAIN edge : 1 <= edge[i] /\ edge[i] <= graph.n_vertices

is_valid_3coloring(graph, coloring) ==
    IF ~ asserts_of_graph(graph) THEN Exception("AssertionError")
    ELSE IF \E vertex \in 1 .. graph.n_vertices :
                \/ vertex \notin DOMAIN coloring
                \/ coloring[vertex] \notin {1, 2, 3}
    THEN FALSE
    ELSE IF \E edge \in graph.edges : coloring[edge[1]] = coloring[edge[2]]
    THEN FALSE
    ELSE TRUE

\* the first loop of graph3coloring_to_formula, up to the given vertex
RECURSIVE vertices_formula(_)
vertices_formula(vertex) ==
    IF vertex = 0 THEN PVar("T")
    ELSE Once(vertices_formula(vertex - 1), LAMBDA formula :
             PBin("&", formula,
                  PBin("|", PBin("|", PVar(vertex_variable("x", vertex)),
                                      PVar(vertex_variable("y", vertex))),
                            PVar(vertex_variable("z", vertex)))))

\* e_f that forbids only the first of the three colors on both ends
edge_formula_first_color(edge) ==
    LET vars_v(v) == PNot(PBin("&", PVar(vertex_variable(v, edge[1])),
                                    PVar(vertex_variable(v, edge[2]))))
    IN  PBin("&", PBin("&", vars_v("x"), vars_v("x")), vars_v("x"))

\* e_f for an edge
edge_formula(edge) ==
    LET vars_v(v) == PNot(PBin("&", PVar(vertex_variable(v, edge[1])),
                                    PVar(vertex_variable(v, edge[2]))))
    IN  PBin("&", PBin("&", vars_v("x"), vars_v("y")), vars_v("z"))

\* the second loop, over the edges in the order in which the set yields them
RECURSIVE edges_formula(_, _, _)
edges_formula(formula, edges, k) ==
    IF k = 0 THEN formula
    ELSE Once(edges_formula(formula, edges, k - 1), LAMBDA before :
             PBin("&", before, edge_formula(edges[k])))

graph3coloring_to_formula(graph, edges) ==
    IF ~ asserts_of_graph(graph) THEN Exception("AssertionError")
    ELSE edges_formula(vertices_formula(graph.n_vertices), edges, Len(edges))

assignment_to_3coloring(graph, edges, assignment) ==
    IF ~ evaluate(graph3coloring_to_formula(graph, edges), assignment)
    THEN Exception("AssertionError")
    ELSE LET color(vertex) ==
                 IF assignment[vertex_variable("z", vertex)] THEN 3
                 ELSE IF assignment[vertex_variable("y", vertex)] THEN 2
                 ELSE 1
         IN  [vertex \in { u \in 1 .. graph.n_vertices :
                               \E v \in {"x", "y", "z"} :
                                   assignment[vertex_variable(v, u)] } |->
                 color(vertex)]

\* edges and variables_ are the orders in which the set of edges and the set
\* formula.variables() are iterated; the call returns None or, in the field
\* coloring, the mapping
tricolor_graph(graph, edges, variables_) ==
    Once(graph3coloring_to_formula(graph, edges), LAMBDA formula :
    Once(all_models(variables_), LAMBDA models :
    Once({ k \in DOMAIN models : evaluate(formula, models[k]) }, LAMBDA found :
        IF found = {} THEN None
        ELSE [coloring |->
                 assignment_to_3coloring(graph, edges,
                     models[CHOOSE k \in found : \A j \in found : k <= j])])))

(***************************************************************************)
(* SpecReductions: graph3coloring_to_formula and tricolor_graph are called *)
(* on a graph of up to MaxVertices vertices, or on the complete graph with *)
(* one vertex more.                                                        *)
(***************************************************************************)
MaxVertices == 3

\* each set in two of the orders in which it may be iterated: by increasing
\* and by decreasing rank of its elements
RECURSIVE by_rank(_, _, _)
by_rank(set, rank(_), increasing) ==
    IF set = {} THEN << >>
    ELSE LET x == CHOOSE x \in set : \A y \in set :
                      IF increasing THEN rank(x) <= rank(y) ELSE rank(x) >= rank(y)
         IN  <<x>> \o by_rank(set \ {x}, rank, increasing)

\* the graph in which every two different vertices are joined
CompleteGraph(n_vertices) ==
    [n_vertices |-> n_vertices,
     edges |-> { edge \in (1 .. n_vertices) \X (1 .. n_vertices) :
                     edge[1] < edge[2] }]

InitReductions ==
    /\ pc = "start"
    /\ \/ \E n_vertices \in 0 .. MaxVertices :
              \E edges \in SUBSET { <<a, b>> : a, b \in 1 .. n_vertices } :
                  /\ \A edge \in edges : edge[1] <= edge[2]
                  /\ arg = [graph |-> [n_vertices |-> n_vertices, edges |-> edges]]
       \/ arg = [graph |-> CompleteGraph(MaxVertices + 1)]
    /\ ret = NoValue
    /\ heap = NoValue

CallGraph3ColoringToFormula ==
    /\ pc = "start"
    /\ \E increasing \in BOOLEAN :
           \E result \in { graph3coloring_to_formula(arg.graph,
                               by_rank(arg.graph.edges,
                                       LAMBDA edge : 10 * edge[1] + edge[2],
                                       increasing)) } :
               ret' = result
    /\ pc' = "graph3coloring_to_formula"
    /\ UNCHANGED <<arg, heap>>

CallTricolorGraph ==
    /\ pc = "start"
    /\ \E increasing \in BOOLEAN, color_first \in BOOLEAN :
         LET edges == by_rank(arg.graph.edges,
                              LAMBDA edge : 10 * edge[1] + edge[2], increasing)
             rank(variable) ==
                 CHOOSE n \in 0 .. 100 :
                     \E vertex \in 1 .. arg.graph.n_vertices, c \in 1 .. 3 :
                         /\ variable = vertex_variable(<<"x", "y", "z">>[c], vertex)
                         /\ n = IF color_first THEN 10 * c + vertex
                                ELSE 10 * vertex + c
             variables_ ==
                 by_rank(variables(graph3coloring_to_formula(arg.graph, edges)),
                         rank, increasing)
         IN  \E result \in { tricolor_graph(arg.graph, edges, variables_) } :
                 ret' = result
    /\ pc' = "tricolor_graph"
    /\ UNCHANGED <<arg, heap>>

NextReductions == CallGraph3ColoringToFormula \/ CallTricolorGraph

SpecReductions == InitReductions /\ [][NextReductions]_vars

\* whether the graph has a coloring of its vertices by the colors 1, 2, 3
\* in which no edge joins two vertices of the same color
is_3colorable(graph) ==
    \E coloring \in [1 .. graph.n_vertices -> {1, 2, 3}] :
        \A edge \in graph.edges : coloring[edge[1]] # coloring[edge[2]]

\* C23: for every graph on the vertices 1..n, graph3coloring_to_formula(graph)
\* is satisfiable exactly when the graph is 3-colorable; tricolor_graph(graph)
\* returns None exactly when it is not, and otherwise a coloring for which
\* is_valid_3coloring(graph, coloring) is True
C23_Tricolor ==
    /\ pc = "graph3coloring_to_formula" =>
           ((\E model \in [variables(ret) -> BOOLEAN] : evaluate(ret, model))
                <=> is_3colorable(arg.graph))
    /\ pc = "tricolor_graph" =>
           /\ is_None(ret) <=> ~ is_3colorable(arg.graph)
           /\ ~ is_None(ret) =>
                  /\ is_valid_3coloring(arg.graph, ret.coloring) = TRUE
                  /\ DOMAIN ret.coloring = 1 .. arg.graph.n_vertices
                  /\ \A vertex \in DOMAIN ret.coloring :
                         ret.coloring[vertex] \in {1, 2, 3}
                  /\ \A edge \in arg.graph.edges :
                         ret.coloring[edge[1]] # ret.coloring[edge[2]]

\* the triangle is colored
C23_Witness ==
    /\ pc = "tricolor_graph"
    /\ arg.graph = [n_vertices |-> 3, edges |-> {<<1, 2>>, <<1, 3>>, <<2, 3>>}]
    /\ ~ is_None(ret)
    /\ is_valid_3coloring(arg.graph, ret.coloring) = TRUE

(***************************************************************************)
(* propositions/syntax.py: Formula.__repr__, Formula._parse_prefix,        *)
(* Formula.is_formula and Formula.parse.  Here a string is the sequence of *)
(* its characters, and the root of a formula is such a string.             *)
(***************************************************************************)
string_is_variable(string) ==
    /\ string[1] \in {"p", "q", "r", "s", "t", "u", "v", "w", "x", "y", "z"}
    /\ \/ Len(string) = 1
       \/ \A i \in 2 .. Len(string) :
              string[i] \in {"0", "1", "2", "3", "4", "5", "6", "7", "8", "9"}

string_is_constant(string) == string = <<"T">> \/ string = <<"F">>

string_is_unary(string) == string = <<"~">>

string_is_binary(string) ==
    string = <<"&">> \/ string = <<"|">> \/ string = <<"-", ">">>

\* string[i:j] of Python, for 0 <= i <= j
slice(string, i, j) ==
    SubSeq(string, i + 1, IF j <= Len(string) THEN j ELSE Len(string))

\* string[i:]
slice_from(string, i) == SubSeq(string, i + 1, Len(string))

RECURSIVE __repr__(_)
__repr__(self) ==
    IF string_is_variable(root(self)) \/ string_is_constant(root(self))
    THEN root(self)
    ELSE IF string_is_unary(root(self)) THEN root(self) \o __repr__(first(self))
    ELSE <<"(">> \o __repr__(first(self)) \o root(self)
             \o __repr__(second(self)) \o <<")">>

__eq__(self, other) == __repr__(self) = __repr__(other)

\* the error messages, which _parse_prefix returns in the place of the suffix
Formula_is_empty ==
    <<"F", "o", "r", "m", "u", "l", "a", " ", "i", "s", " ", "e", "m", "p",
      "t", "y", ".">>

Binary_operators_must_be ==
    <<"B", "i", "n", "a", "r", "y", " ", "o", "p", "e", "r", "a", "t", "o",
      "r", "s", " ", "m", "u", "s", "t", " ", "b", "e", " ", "o", "n", "e",
      " ", "o", "f", ":", " ", "&", ",", " ", "|", ",", " ", "-", ">">>

The_use_of_binary_operator ==
    <<"T", "h", "e", " ", "u", "s", "e", " ", "o", "f", " ", "b", "i", "n",
      "a", "r", "y", " ", "o", "p", "e", "r", "a", "t", "o", "r", " ", "i",
      "s", ":", " ", "'", "(", "<", "v", "a", "l", "i", "d", " ", "f", "o",
      "r", "m", "u", "l", "a", "1", ">", "*", "<", "v", "a", "l", "i", "d",
      " ", "f", "o", "r", "m", "u", "l", "a", "2", ">", ")", "'", ",", " ",
      "w", "h", "e", "r", "e", " ", "*", " ", "i", "s", " ", "t", "h", "e",
      " ", "b", "i", "n", "a", "r", "y", " ", "o", "p", "e", "r", "a", "t",
      "o", "r", ".">>

The_use_of_not_operator ==
    <<"T", "h", "e", " ", "u", "s", "e", " ", "o", "f", " ", "n", "o", "t",
      " ", "o", "p", "e", "r", "a", "t", "o", "r", " ", "i", "s", ":", " ",
      "'", "~", "<", "v", "a", "l", "i", "d", " ", "f", "o", "r", "m", "u",
      "l", "a", ">", "'">>

Expected_valid_formula ==
    <<"E", "x", "p", "e", "c", "t", "e", "d", " ", "v", "a", "l", "i", "d",
      " ", "f", "o", "r", "m", "u", "l", "a", ".">>

\* the loop that stops at the first character that is not a letter of a
\* variable name, so that a name ends before its digits
RECURSIVE variable_end_before_digits(_, _)
variable_end_before_digits(string, i) ==
    IF i < Len(string) + 1
    THEN IF string_is_variable(slice(string, 0, i)) /\ i = 1
         THEN variable_end_before_digits(string, i + 1)
         ELSE i - 1
    ELSE i

\* the while loop that finds the end of a variable name: the value of i
\* after the loop
RECURSIVE variable_end(_, _)
variable_end(string, i) ==
    IF i < Len(string) + 1
    THEN IF string_is_variable(slice(string, 0, i))
         THEN variable_end(string, i + 1)
         ELSE i - 1
    ELSE i

\* the None that _parse_prefix returns in the place of a formula
NoPrefix == << >>

\* the call returns [prefix, suffix]; prefix is NoPrefix where the code
\* returns None, and suffix is then the error message
RECURSIVE _parse_prefix(_)
_parse_prefix(string) ==
    IF Len(string) = 0 THEN [prefix |-> NoPrefix, suffix |-> Formula_is_empty]
    ELSE IF string_is_constant(<<string[1]>>)
    THEN [prefix |-> <<(<<string[1]>>)>>, suffix |-> slice_from(string, 1)]
    ELSE IF string_is_variable(<<string[1]>>)
    THEN Once(variable_end(string, 1), LAMBDA i :
             [prefix |-> <<slice(string, 0, i)>>, suffix |-> slice_from(string, i)])
    ELSE IF string[1] = "("
    THEN Once(_parse_prefix(slice_from(string, 1)), LAMBDA parsed1 :
           LET first_ == parsed1.prefix
               rest == parsed1.suffix
           IN  IF \/ Len(rest) <= 1
                  \/ (~ string_is_binary(<<rest[1]>>)
                        /\ ~ string_is_binary(slice(rest, 0, 2)))
               THEN [prefix |-> NoPrefix, suffix |-> Binary_operators_must_be]
               ELSE
                 LET operator == IF string_is_binary(<<rest[1]>>) THEN <<rest[1]>>
                                 ELSE slice(rest, 0, 2)
                     rest_ == IF string_is_binary(<<rest[1]>>)
                              THEN slice_from(rest, 1) ELSE slice_from(rest, 2)
                 IN  Once(_parse_prefix(rest_), LAMBDA parsed2 :
                       LET second_ == parsed2.prefix
                           rest2 == parsed2.suffix
                       IN  IF \/ first_ = NoPrefix
                              \/ second_ = NoPrefix
                              \/ Len(rest2) = 0
                              \/ rest2[1] # ")"
                           THEN [prefix |-> NoPrefix,
                                 suffix |-> The_use_of_binary_operator]
                           ELSE [prefix |-> <<operator, first_, second_>>,
                                 suffix |-> slice_from(rest2, 1)]))
    ELSE IF string_is_unary(<<string[1]>>)
    THEN Once(_parse_prefix(slice_from(string, 1)), LAMBDA parsed :
             IF parsed.prefix = NoPrefix
             THEN [prefix |-> NoPrefix, suffix |-> The_use_of_not_operator]
             ELSE [prefix |-> <<(<<string[1]>>), parsed.prefix>>,
                   suffix |-> parsed.suffix])
    ELSE [prefix |-> NoPrefix, suffix |-> Expected_valid_formula]

Formula_is_formula(string) ==
    Once(_parse_prefix(string), LAMBDA parsed :
        parsed.prefix # NoPrefix /\ Len(parsed.suffix) = 0)

Formula_parse(string) ==
    Once(_parse_prefix(string), LAMBDA parsed :
        IF ~ (parsed.prefix # NoPrefix /\ Len(parsed.suffix) = 0)
        THEN Exception("AssertionError")
        ELSE parsed.prefix)

(***************************************************************************)
(* SpecParse: a formula is converted to its string, which is parsed; a     *)
(* string is checked by is_formula and, when it is accepted, parsed, and   *)
(* the formula converted to its string.                                    *)
(***************************************************************************)
MaxString == 6

MaxParsed == 2

Alphabet == {"x", "1", "~", "(", ")", "-", ">"}

\* the formulas with exactly n operators
RECURSIVE ParsedFormulas(_)
ParsedFormulas(n) ==
    IF n = 0
    THEN { <<(<<"p">>)>>, <<(<<"x", "1", "2">>)>>, <<(<<"T">>)>>, <<(<<"F">>)>> }
    ELSE { <<(<<"~">>), f>> : f \in ParsedFormulas(n - 1) }
         \cup UNION { { <<op, f, g>> : op \in {<<"&">>, <<"|">>, <<"-", ">">>},
                                       f \in ParsedFormulas(k),
                                       g \in ParsedFormulas(n - 1 - k) } :
                      k \in 0 .. n - 1 }

InitParse ==
    /\ pc = "start"
    /\ \/ \E n \in 0 .. MaxParsed : \E formula \in ParsedFormulas(n) :
              arg = [formula |-> formula]
       \/ \E n \in 0 .. MaxString : \E string \in [1 .. n -> Alphabet] :
              arg = [string |-> string]
    /\ ret = NoValue
    /\ heap = NoValue

\* str(x) of a constructed formula x
CallStr ==
    /\ pc = "start"
    /\ "formula" \in DOMAIN arg
    /\ ret' = __repr__(arg.formula)
    /\ pc' = "str"
    /\ UNCHANGED <<arg, heap>>

\* Formula.parse(str(x)), and its comparison with x
CallParseStr ==
    /\ pc = "str"
    /\ \E result \in { Formula_parse(ret) } :
           ret' = [formula |-> result, equal |-> __eq__(result, arg.formula)]
    /\ pc' = "parse_str"
    /\ UNCHANGED <<arg, heap>>

CallIsFormula ==
    /\ pc = "start"
    /\ "string" \in DOMAIN arg
    /\ ret' = Formula_is_formula(arg.string)
    /\ pc' = "is_formula"
    /\ UNCHANGED <<arg, heap>>

\* str(Formula.parse(s)) of an accepted string s
CallStrParse ==
    /\ pc = "is_formula"
    /\ ret = TRUE
    /\ \E result \in { __repr__(Formula_parse(arg.string)) } : ret' = result
    /\ pc' = "str_parse"
    /\ UNCHANGED <<arg, heap>>

NextParse == CallStr \/ CallParseStr \/ CallIsFormula \/ CallStrParse

SpecParse == InitParse /\ [][NextParse]_vars

\* C24: for every formula x that can be constructed, Formula.parse(str(x))
\* equals x, and for every string s that Formula.is_formula accepts,
\* str(Formula.parse(s)) is s; a variable name of several characters such as
\* 'x12' is parsed as one whole name
C24_ParseRoundTrip ==
    /\ pc = "parse_str" => ret.equal /\ ret.formula = arg.formula
    /\ pc = "str_parse" => ret = arg.string
    /\ pc = "str" /\ arg.formula = <<(<<"x", "1", "2">>)>> =>
           _parse_prefix(ret) = [prefix |-> arg.formula, suffix |-> << >>]

C24_Witness ==
    /\ pc = "parse_str"
    /\ arg.formula = <<(<<"-", ">">>), <<(<<"~">>), <<(<<"x", "1", "2">>)>> >>,
                       <<(<<"T">>)>> >>
    /\ ret.equal

(***************************************************************************)
(* SpecOperators: is_binary is called on an operator, a formula is         *)
(* constructed with an operator at its root, and a constructed formula is  *)
(* evaluated.                                                              *)
(***************************************************************************)
\* whether the assertions of Formula.__init__ hold for a root with two
\* operands
Formula__init__asserts(root_) ==
    /\ ~ (is_variable(root_) \/ is_constant(root_))
    /\ ~ is_unary(root_)
    /\ is_binary(root_)

BinaryOperators == {"&", "|", "->", "+", "<->", "-&", "-|"}

Operands == { PVar("p"), PVar("q"), PNot(PVar("p")), PVar("T") }

CallIsBinary ==
    /\ pc = "start"
    /\ \E string \in BinaryOperators \cup {"~"} :
           /\ arg' = [string |-> string]
           /\ ret' = is_binary(string)
    /\ pc' = "is_binary"
    /\ UNCHANGED heap

CallFormula ==
    /\ pc = "start"
    /\ \E root_ \in BinaryOperators, first_ \in Operands, second_ \in Operands :
           /\ arg' = [root |-> root_, first |-> first_, second |-> second_]
           /\ ret' = IF Formula__init__asserts(root_)
                     THEN [formula |-> PBin(root_, first_, second_)]
                     ELSE Exception("AssertionError")
    /\ pc' = "Formula"
    /\ UNCHANGED heap

CallEvaluate ==
    /\ pc = "Formula"
    /\ ~ is_raised(ret)
    /\ \E model \in [{"p", "q"} -> BOOLEAN] :
           /\ heap' = model
           /\ ret' = evaluate(ret.formula, model)
    /\ pc' = "evaluate"
    /\ UNCHANGED arg

NextOperators == CallIsBinary \/ CallFormula \/ CallEvaluate

SpecOperators == InitSemantics /\ [][NextOperators]_vars

\* the standard truth table of the operator
truth_table(operator, a, b) ==
    CASE operator = "&" -> a /\ b
      [] operator = "|" -> a \/ b
      [] operator = "->" -> a => b
      [] operator = "+" -> a # b
      [] operator = "<->" -> a = b
      [] operator = "-&" -> ~ (a /\ b)
      [] operator = "-|" -> ~ (a \/ b)

\* C25: is_binary returns True for each of '&', '|', '->', '+', '<->', '-&'
\* and '-|', so that a Formula with any of these roots can be constructed
\* and evaluate gives it the standard truth table of the operator
C25_AllOperators ==
    /\ pc = "is_binary" /\ arg.string \in BinaryOperators => ret = TRUE
    /\ pc = "Formula" => ~ is_raised(ret)
    /\ pc = "evaluate" =>
           ret = truth_table(arg.root, evaluate(arg.first, heap),
                             evaluate(arg.second, heap))

\* the same for the operators '&', '|' and '->' only
ThreeOperators ==
    /\ pc = "is_binary" /\ arg.string \in {"&", "|", "->"} => ret = TRUE
    /\ pc = "Formula" /\ arg.root \in {"&", "|", "->"} => ~ is_raised(ret)
    /\ pc = "evaluate" =>
           ret = truth_table(arg.root, evaluate(arg.first, heap),
                             evaluate(arg.second, heap))

(***************************************************************************)
(* SpecRemoveAssumptionLoop: the loop of the propositional                 *)
(* remove_assumption, one input line at a time, on the valid proofs of     *)
(* SpecDeduction.  ret is the loop state: new_lines, lines_bias and the    *)
(* entries of lines_map that have been set.                                *)
(***************************************************************************)
\* the call has passed its assertions and is about to enter the loop
EnterRemoveAssumption ==
    /\ pc = "build"
    /\ is_valid(arg.proof)
    /\ Len(arg.proof.statement.assumptions) > 0
    /\ \A rule \in arg.proof.rules :
           rule = "MP" \/ Len(Rule(rule).assumptions) = 0
    /\ ret' = [new_lines |-> <<>>, lines_bias |-> 0, lines_map |-> <<>>]
    /\ pc' = "remove_assumption_loop"
    /\ UNCHANGED <<arg, heap>>

\* one iteration of the loop, for the next input line
RemoveAssumptionLine ==
    /\ pc = "remove_assumption_loop"
    /\ Len(ret.lines_map) < Len(arg.proof.lines)
    /\ \E result \in { remove_assumption_step(arg.proof, ret, Len(ret.lines_map)) } :
           ret' = result
    /\ UNCHANGED <<pc, arg, heap>>

NextRemoveAssumptionLoop ==
    \/ AddAssumptionLine
    \/ AddRuleLine
    \/ AddMPLine
    \/ EnterRemoveAssumption
    \/ RemoveAssumptionLine

SpecRemoveAssumptionLoop == InitDeduction /\ [][NextRemoveAssumptionLoop]_vars

\* C26: after input line i has been processed, lines_map[i] is the index in
\* the new lines of a line whose formula is '(phi->z_i)', the new list has
\* exactly i+1+lines_bias lines, and every MP line added cites two strictly
\* smaller indices whose formulas are a and '(a->formula of the MP line)',
\* in that order
C26_LoopInvariant ==
    pc = "remove_assumption_loop" =>
        LET phi == Last(arg.proof.statement.assumptions)
            processed == Len(ret.lines_map)
        IN  /\ \A i \in 0 .. processed - 1 :
                   /\ At(ret.lines_map, i) \in 0 .. Len(ret.new_lines) - 1
                   /\ At(ret.new_lines, At(ret.lines_map, i)).formula =
                          PImp(phi, At(arg.proof.lines, i).formula)
            /\ Len(ret.new_lines) = processed + ret.lines_bias
            /\ \A n \in 0 .. Len(ret.new_lines) - 1 :
                   At(ret.new_lines, n).rule = "MP" =>
                       LET cited == At(ret.new_lines, n).assumptions
                       IN  /\ Len(cited) = 2
                           /\ cited[1] \in 0 .. n - 1
                           /\ cited[2] \in 0 .. n - 1
                           /\ At(ret.new_lines, cited[2]).formula =
                                  PImp(At(ret.new_lines, cited[1]).formula,
                                       At(ret.new_lines, n).formula)

\* the loop has processed an MP line of the given proof, after an assumption
\* other than phi and phi itself
C26_Witness ==
    /\ pc = "remove_assumption_loop"
    /\ Len(ret.lines_map) = 3
    /\ At(arg.proof.lines, 2).rule = "MP"
    /\ At(arg.proof.lines, 0).formula # At(arg.proof.lines, 1).formula
    /\ ret.lines_bias = 4
    /\ Len(ret.new_lines) = 7

(***************************************************************************)
(* SpecPullOut: the functions that pull quantifications out of a negation  *)
(* and out of the operands of a binary operator are called on formulas     *)
(* with uniquely named variables: on a quantified 'R(x,y)', negated, and   *)
(* as the left operand of an operator whose right operand is a quantified  *)
(* 'P(1,z)'.                                                               *)
(***************************************************************************)
MaxLeftQuantifiers == 2

MaxRightQuantifiers == 1

\* the sequences of n quantifications <<quantifier, variable>> over different
\* variables of the given set
RECURSIVE Quantifications(_, _)
Quantifications(n, variables_) ==
    IF n = 0 THEN { << >> }
    ELSE UNION { { <<<<q, v>>>> \o rest :
                   rest \in Quantifications(n - 1, variables_ \ {v}) } :
                 q \in {"A", "E"}, v \in variables_ }

\* the formula with the given quantifications in front of the given formula
RECURSIVE quantify(_, _)
quantify(quantifications, formula) ==
    IF quantifications = << >> THEN formula
    ELSE Quantified(Head(quantifications)[1], Head(quantifications)[2],
                    quantify(Tail(quantifications), formula))

\* the quantifications at the root of the formula, outermost first
RECURSIVE quantifications_of(_)
quantifications_of(formula) ==
    IF is_quantifier(formula.root)
    THEN <<<<formula.root, formula.variable>>>> \o quantifications_of(formula.predicate)
    ELSE << >>

\* the formula below the quantifications at its root
RECURSIVE below_quantifications(_)
below_quantifications(formula) ==
    IF is_quantifier(formula.root) THEN below_quantifications(formula.predicate)
    ELSE formula

\* every quantifier replaced by the other one, names and order kept
swapped(quantifications) ==
    [n \in DOMAIN quantifications |->
        <<IF quantifications[n][1] = "A" THEN "E" ELSE "A", quantifications[n][2]>>]

LeftOperands ==
    UNION { { quantify(qs, Relation("R", <<Atom("x"), Atom("y")>>)) :
              qs \in Quantifications(n, {"x", "y"}) } :
            n \in 0 .. MaxLeftQuantifiers }

RightOperands ==
    UNION { { quantify(qs, Relation("P", <<Atom("1"), Atom("z")>>)) :
              qs \in Quantifications(n, {"z"}) } :
            n \in 0 .. MaxRightQuantifiers }

InitPullOut ==
    /\ pc = "start"
    /\ \/ \E first_ \in LeftOperands : arg = [formula |-> Unary(first_)]
       \/ \E op \in {"&", "|", "->"}, first_ \in LeftOperands,
             second_ \in RightOperands :
              arg = [formula |-> Binary(op, first_, second_)]
    /\ ret = NoValue
    /\ heap = NoValue

CallPullOutAcrossNegation ==
    /\ pc = "start"
    /\ predicates_is_unary(arg.formula.root)
    /\ \E result \in { _pull_out_quantifications_across_negation(arg.formula) } :
           ret' = result
    /\ pc' = "_pull_out_quantifications_across_negation"
    /\ UNCHANGED <<arg, heap>>

CallPullOutFromLeft ==
    /\ pc = "start"
    /\ predicates_is_binary(arg.formula.root)
    /\ \E result \in
           { _pull_out_quantifications_from_left_across_binary_operator(arg.formula) } :
           ret' = result
    /\ pc' = "_pull_out_quantifications_from_left_across_binary_operator"
    /\ UNCHANGED <<arg, heap>>

CallPullOutFromRight ==
    /\ pc = "start"
    /\ predicates_is_binary(arg.formula.root)
    /\ \E result \in
           { _pull_out_quantifications_from_right_across_binary_operator(arg.formula) } :
           ret' = result
    /\ pc' = "_pull_out_quantifications_from_right_across_binary_operator"
    /\ UNCHANGED <<arg, heap>>

CallPullOutAcrossBinaryOperator ==
    /\ pc = "start"
    /\ predicates_is_binary(arg.formula.root)
    /\ \E result \in { _pull_out_quantifications_across_binary_operator(arg.formula) } :
           ret' = result
    /\ pc' = "_pull_out_quantifications_across_binary_operator"
    /\ UNCHANGED <<arg, heap>>

NextPullOut ==
    \/ CallPullOutAcrossNegation
    \/ CallPullOutFromLeft
    \/ CallPullOutFromRight
    \/ CallPullOutAcrossBinaryOperator

SpecPullOut == InitPullOut /\ [][NextPullOut]_vars

\* C27: when quantifiers are pulled out of a formula with uniquely named
\* variables, each keeps its variable name and its relative order; it is
\* swapped between 'A' and 'E' exactly when it crosses a negation or comes
\* from the left operand of '->', and unchanged when it comes from an operand
\* of '&' or '|' or from the right operand of '->'; across a binary operator
\* the left operand's quantifiers end up outermost, followed by the right
\* operand's
C27_PullOut ==
    LET formula == arg.formula
        left == quantifications_of(formula.first)
        left_pulled == IF formula.root = "->" THEN swapped(left) ELSE left
        right == quantifications_of(formula.second)
    IN  /\ pc = "_pull_out_quantifications_across_negation" =>
               /\ ~ ret.proof.raised
               /\ ret.formula =
                      quantify(swapped(left),
                               Unary(below_quantifications(formula.first)))
        /\ pc = "_pull_out_quantifications_from_left_across_binary_operator" =>
               /\ ~ ret.proof.raised
               /\ ret.formula =
                      quantify(left_pulled,
                               Binary(formula.root,
                                      below_quantifications(formula.first),
                                      formula.second))
        /\ pc = "_pull_out_quantifications_from_right_across_binary_operator" =>
               /\ ~ ret.proof.raised
               /\ ret.formula =
                      quantify(right,
                               Binary(formula.root, formula.first,
                                      below_quantifications(formula.second)))
        /\ pc = "_pull_out_quantifications_across_binary_operator" =>
               /\ ~ ret.proof.raised
               /\ ret.formula =
                      quantify(left_pulled \o right,
                               Binary(formula.root,
                                      below_quantifications(formula.first),
                                      below_quantifications(formula.second)))

\* '(Ax[Ey[R(x,y)]]->Ez[P(1,z)])' has become 'Ex[Ay[Ez[(R(x,y)->P(1,z))]]]'
C27_Witness ==
    /\ pc = "_pull_out_quantifications_across_binary_operator"
    /\ arg.formula =
           Binary("->",
                  Quantified("A", "x", Quantified("E", "y",
                      Relation("R", <<Atom("x"), Atom("y")>>))),
                  Quantified("E", "z", Relation("P", <<Atom("1"), Atom("z")>>)))
    /\ ret.formula =
           Quantified("E", "x", Quantified("A", "y", Quantified("E", "z",
               Binary("->", Relation("R", <<Atom("x"), Atom("y")>>),
                            Relation("P", <<Atom("1"), Atom("z")>>)))))

\* a negation has been crossed by two quantifiers
C27_WitnessNegation ==
    /\ pc = "_pull_out_quantifications_across_negation"
    /\ Len(quantifications_of(arg.formula.first)) = 2
    /\ Len(quantifications_of(ret.formula)) = 2

(***************************************************************************)
(* SpecRename: _uniquely_rename_quantified_variables is called twice, on   *)
(* a formula with at most MaxRenamed operators and quantifications and     *)
(* then on that formula again or on another one, after the generator of    *)
(* fresh variable names has generated none or one name.                    *)
(***************************************************************************)
MaxRenamed == 2

\* the formulas with exactly n operators and quantifications over 'R(x,y)'
\* and 'Q(x)'
RECURSIVE RenameFormulas(_)
RenameFormulas(n) ==
    IF n = 0 THEN { Relation("R", <<Atom("x"), Atom("y")>>),
                    Relation("Q", <<Atom("x")>>) }
    ELSE { Unary(f) : f \in RenameFormulas(n - 1) }
         \cup { Quantified(q, v, f) : q \in {"A", "E"}, v \in {"x", "y"},
                                      f \in RenameFormulas(n - 1) }
         \cup UNION { { Binary(op, f, g) : op \in {"&", "|", "->"},
                                           f \in RenameFormulas(k),
                                           g \in RenameFormulas(n - 1 - k) } :
                      k \in 0 .. n - 1 }

\* '~(w=x|Aw[(Ex[(x=w&Aw[w=x])]->Ax[x=y])])', and formulas in which both
\* operands of an operator quantify over the same variable
RenameExamples ==
    { Unary(Binary("|", Equality(Atom("w"), Atom("x")),
          Quantified("A", "w",
              Binary("->",
                  Quantified("E", "x",
                      Binary("&", Equality(Atom("x"), Atom("w")),
                          Quantified("A", "w", Equality(Atom("w"), Atom("x"))))),
                  Quantified("A", "x", Equality(Atom("x"), Atom("y"))))))) }
    \cup { Binary(op, Quantified(q, "x", f), Quantified("A", "x", g)) :
               op \in {"&", "->"}, q \in {"A", "E"},
               f \in RenameFormulas(0), g \in RenameFormulas(0) }

\* the variables of the quantifications of the formula, from left to right
RECURSIVE quantified_variables(_)
quantified_variables(formula) ==
    IF predicates_is_unary(formula.root) THEN quantified_variables(formula.first)
    ELSE IF predicates_is_binary(formula.root)
    THEN quantified_variables(formula.first) \o quantified_variables(formula.second)
    ELSE IF is_quantifier(formula.root)
    THEN <<formula.variable>> \o quantified_variables(formula.predicate)
    ELSE << >>

\* the number of names of the generator that the model has
MaxNames == Cardinality({"z1", "z2", "z3", "z4", "z5", "z6", "z7", "z8"})

InitRename ==
    /\ pc = "start"
    /\ \E formula \in RenameExamples
                       \cup UNION { RenameFormulas(n) : n \in 0 .. MaxRenamed } :
       \E again \in {formula,
                     Quantified("A", "x", Relation("R", <<Atom("x"), Atom("y")>>))} :
           arg = [formula |-> formula, again |-> again, earlier |-> NoFormula]
    /\ ret = NoValue
    /\ heap \in {0, 1}

CallUniquelyRename ==
    /\ pc = "start"
    /\ \E result \in { _uniquely_rename_quantified_variables(arg.formula, heap) } :
           /\ ret' = [formula |-> result.formula, proof |-> result.proof]
           /\ heap' = result.generated
    /\ pc' = "_uniquely_rename_quantified_variables"
    /\ UNCHANGED arg

CallUniquelyRenameAgain ==
    /\ pc = "_uniquely_rename_quantified_variables"
    /\ ~ ret.proof.raised
    /\ heap + Len(quantified_variables(arg.again)) <= MaxNames
    /\ \E result \in { _uniquely_rename_quantified_variables(arg.again, heap) } :
           /\ ret' = [formula |-> result.formula, proof |-> result.proof]
           /\ heap' = result.generated
    /\ arg' = [formula |-> arg.again, again |-> arg.again, earlier |-> ret.formula]
    /\ pc' = "_uniquely_rename_quantified_variables_again"

NextRename ==
    \/ CallUniquelyRename
    \/ CallUniquelyRenameAgain

SpecRename == InitRename /\ [][NextRename]_vars

\* the term with every variable that is bound replaced by the number of the
\* quantification that binds it, counted from the root of the formula
RECURSIVE nameless_term(_, _)
nameless_term(term, bound) ==
    IF is_function(term.root)
    THEN Term(term.root,
              [n \in DOMAIN term.arguments |-> nameless_term(term.arguments[n], bound)])
    ELSE IF \E n \in DOMAIN bound : bound[n] = term.root
    THEN Atom(<<"#1", "#2", "#3", "#4", "#5">>[
                  CHOOSE n \in DOMAIN bound :
                      /\ bound[n] = term.root
                      /\ \A k \in DOMAIN bound : bound[k] = term.root => k <= n])
    ELSE term

\* the formula without the names of its bound variables: same tree, same free
\* variables, every bound occurrence pointing at its quantification
RECURSIVE nameless(_, _)
nameless(formula, bound) ==
    IF predicates_is_unary(formula.root)
    THEN Unary(nameless(formula.first, bound))
    ELSE IF predicates_is_binary(formula.root)
    THEN Binary(formula.root, nameless(formula.first, bound),
                nameless(formula.second, bound))
    ELSE IF is_quantifier(formula.root)
    THEN Quantified(formula.root, "#",
                    nameless(formula.predicate, Append(bound, formula.variable)))
    ELSE Relation(formula.root,
                  [n \in DOMAIN formula.arguments |->
                      nameless_term(formula.arguments[n], bound)])

\* C28: for a formula f with no variable name starting with 'z',
\* _uniquely_rename_quantified_variables(f) returns a formula g that has
\* uniquely named variables and differs from f only in the names of the bound
\* variables (same tree, same free variables, each bound occurrence bound by
\* the same quantifier); the fresh names of different quantifier occurrences,
\* within one call and across calls, are pairwise distinct
C28_UniquelyRename ==
    pc \in {"_uniquely_rename_quantified_variables",
            "_uniquely_rename_quantified_variables_again"} =>
        LET names == quantified_variables(ret.formula)
            earlier == quantified_variables(arg.earlier)
        IN  /\ ~ ret.proof.raised
            /\ has_uniquely_named_variables(ret.formula)
            /\ nameless(ret.formula, << >>) = nameless(arg.formula, << >>)
            /\ free_variable_names(ret.formula) = free_variable_names(arg.formula)
            /\ Len(names) = Len(quantified_variables(arg.formula))
            /\ \A n \in DOMAIN names :
                   /\ names[n] \in {"z1", "z2", "z3", "z4", "z5", "z6", "z7", "z8"}
                   /\ \A k \in DOMAIN names : names[k] = names[n] => k = n
                   /\ \A k \in DOMAIN earlier : earlier[k] # names[n]

\* the second call has renamed a formula in which both operands of an operator
\* quantify over the same variable, after a first call that renamed a
\* quantification
C28_Witness ==
    /\ pc = "_uniquely_rename_quantified_variables_again"
    /\ predicates_is_binary(arg.formula.root)
    /\ is_quantifier(arg.formula.first.root)
    /\ is_quantifier(arg.formula.second.root)
    /\ arg.formula.first.variable = arg.formula.second.variable
    /\ ret.formula.first.variable # ret.formula.second.variable
    /\ Len(quantified_variables(arg.earlier)) = 2

(***************************************************************************)
(* SpecCandidate: model_or_inconsistency in two steps, on the closed sets  *)
(* of SpecCompleteness: the candidate model is built (heap), then the      *)
(* sentences are evaluated in it and the call returns.                     *)
(***************************************************************************)
\* the model that model_or_inconsistency builds before it evaluates the
\* sentences
candidate_model(sentences) ==
    LET primitives == { s \in sentences : _is_primitive_or_its_negation(s) }
        universe == get_constants(sentences)
        positive == { s \in primitives : ~ predicates_is_unary(s.root) }
    IN  [universe |-> universe,
         constant_meanings |-> [c \in universe |-> c],
         relation_meanings |->
             [name \in { s.root : s \in positive } |->
                 { [i \in DOMAIN s.arguments |-> s.arguments[i].root] :
                       s \in { g \in positive : g.root = name } }]]

BuildCandidateModel ==
    /\ pc = "start"
    /\ is_closed(arg.sentences)
    /\ heap' = candidate_model(arg.sentences)
    /\ pc' = "candidate_model"
    /\ UNCHANGED <<arg, ret>>

EvaluateSentences ==
    /\ pc = "candidate_model"
    /\ ret' \in model_or_inconsistency(arg.sentences)
    /\ pc' = "model_or_inconsistency"
    /\ UNCHANGED <<arg, heap>>

NextCandidate ==
    \/ BuildCandidateModel
    \/ EvaluateSentences

SpecCandidate == InitCompleteness /\ [][NextCandidate]_vars

\* the universe is the constants of S, every constant means itself, and every
\* relation name that has a meaning means the tuples t with R(t) in S
candidate_is_exact(model, sentences) ==
    /\ model.universe = get_constants(sentences)
    /\ model.constant_meanings = [c \in get_constants(sentences) |-> c]
    /\ \A r \in UNION { Formula_relations(s) : s \in sentences } :
           r[1] \in DOMAIN model.relation_meanings =>
               model.relation_meanings[r[1]] =
                   { t \in [1 .. r[2] -> model.universe] :
                         Relation(r[1], [i \in 1 .. r[2] |-> Atom(t[i])])
                             \in sentences }

\* C29: the candidate model that model_or_inconsistency builds from a closed
\* set S has as universe exactly the constants of S, maps every constant to
\* itself and gives every relation name of S the set of the constant tuples t
\* with R(t) in S as its extension, the empty set for a relation of which only
\* negated primitives are in S, so that every sentence of S can be evaluated
C29_CandidateModel ==
    pc = "candidate_model" =>
        /\ candidate_is_exact(heap, arg.sentences)
        /\ \A s \in arg.sentences :
               \A r \in Formula_relations(s) :
                   r[1] \in DOMAIN heap.relation_meanings
        /\ \A s \in arg.sentences : has_meanings(heap, s)

\* what the code does: the relation names with a meaning are those of the
\* un-negated primitives of S, and the meanings that there are are exact
C29_PositiveRelations ==
    pc = "candidate_model" =>
        /\ candidate_is_exact(heap, arg.sentences)
        /\ DOMAIN heap.relation_meanings =
               { s.root : s \in { g \in arg.sentences : is_relation(g.root) } }

\* the candidate model of a set with the negation of a primitive and without
\* any primitive of that relation
C29_OnlyNegated ==
    /\ pc = "candidate_model"
    /\ _not(Relation("R", <<Atom("a")>>)) \in arg.sentences
    /\ \A s \in arg.sentences : s.root # "R"

(***************************************************************************)
(* SpecUnsatisfied: find_unsatisfied_quantifier_free_sentence is called on *)
(* a closed set of at most MaxClosed sentences, a model whose universe is  *)
(* the constants of the set and a sentence of the set that is false in the *)
(* model: as a whole, and one invocation at a time (heap counts the        *)
(* recursive calls).                                                       *)
(***************************************************************************)
MaxClosed == 5

\* the models for the sentences: every constant means itself, 'R' and 'Q' mean
\* any sets of elements
ModelsOf(sentences) ==
    LET universe == get_constants(sentences)
        meanings == { { <<c>> : c \in elements } : elements \in SUBSET universe }
    IN  { [universe |-> universe,
           constant_meanings |-> [c \in universe |-> c],
           relation_meanings |-> [name \in {"R", "Q"} |->
                                     IF name = "R" THEN R_ ELSE Q_]] :
          R_ \in meanings, Q_ \in meanings }

InitUnsatisfied ==
    /\ pc = "start"
    /\ \E sentences \in SUBSET Sentences :
           /\ Cardinality(sentences) <= MaxClosed
           /\ \A s \in sentences : /\ is_in_prenex_normal_form(s)
                                   /\ free_variable_names(s) = {}
           /\ is_closed(sentences)
           /\ \E model \in ModelsOf(sentences) :
              \E unsatisfied \in sentences :
                  /\ ~ evaluate_formula(model, unsatisfied, << >>)
                  /\ arg = [sentences |-> sentences, model |-> model,
                            unsatisfied |-> unsatisfied, given |-> unsatisfied]
    /\ ret = NoValue
    /\ heap = 0

\* the whole call
CallFindUnsatisfied ==
    /\ pc = "start"
    /\ ret' \in find_unsatisfied_quantifier_free_sentence(
                    arg.sentences, arg.model, arg.unsatisfied)
    /\ pc' = "find_unsatisfied_quantifier_free_sentence"
    /\ UNCHANGED <<arg, heap>>

\* one invocation, up to its recursive call or its return; the loop over the
\* universe, a set, can come to any of the elements that pass its test first
InvokeFindUnsatisfied ==
    /\ pc \in {"start", "invoked"}
    /\ LET unsatisfied == arg.unsatisfied
           found == { c \in arg.model.universe :
                          /\ instantiated(unsatisfied, c) \in arg.sentences
                          /\ ~ evaluate_formula(arg.model,
                                                instantiated(unsatisfied, c), << >>) }
       IN  IF is_quantifier(unsatisfied.root) THEN
               IF found = {}
               THEN /\ ret' = NoFormula
                    /\ pc' = "returned"
                    /\ UNCHANGED <<arg, heap>>
               ELSE /\ \E c \in found :
                        arg' = [arg EXCEPT
                                    !.unsatisfied = instantiated(unsatisfied, c)]
                    /\ heap' = heap + 1
                    /\ pc' = "invoked"
                    /\ UNCHANGED ret
           ELSE /\ ret' = unsatisfied
                /\ pc' = "returned"
                /\ UNCHANGED <<arg, heap>>

NextUnsatisfied ==
    \/ CallFindUnsatisfied
    \/ InvokeFindUnsatisfied

SpecUnsatisfied == InitUnsatisfied /\ [][NextUnsatisfied]_vars

C30_WitnessExistential ==
    /\ pc = "find_unsatisfied_quantifier_free_sentence"
    /\ arg.given.root = "E"
    /\ is_quantifier_free(ret)

====
